---- MODULE Spec2Model ----
(***************************************************************************)
(* A model of the code-review dashboard: the Code Diff Viewer component    *)
(* (CodeDiff: URL parsing, the GitHub and GitLab adapters, the diff        *)
(* rendering handlers), and the edge function send-telegram-notification.  *)
(*                                                                         *)
(* Text is modelled as a sequence of tokens.  In a URL a token is "/" or   *)
(* a run of characters without "/" (the literals "github.com", "pull",     *)
(* ... are tokens, a digit is a token of its own).  In a diff a token is   *)
(* one character.                                                          *)
(***************************************************************************)
EXTENDS Integers, Sequences, FiniteSets, TLC

VARIABLES
    url,            \* parseMRUrl: the argument
    parsed,         \* parseMRUrl: the returned value, NotParsed before the call
    change,         \* fetchGitLabMR: one entry of changesData.changes
    mapped,         \* fetchGitLabMR: the FileChange made of it, NotMapped before
    mrUrl,          \* CodeDiff state: the text of the MR/PR URL input
    isLoading,      \* CodeDiff state
    filesChanged,   \* CodeDiff state: the file list
    selectedFile,   \* CodeDiff state: a FileChange, or NoFile (null)
    diffHtml,       \* CodeDiff state: the rendered diff, or NoHtml ('')
    viewMode,       \* CodeDiff state: 'side-by-side' or 'unified'
    mrTitle,        \* CodeDiff state
    mrAuthor,       \* CodeDiff state
    inflight,       \* the calls of handleFetchDiff that wait for their responses
    toasts,         \* the notices shown by the last handler that ran
    githubToken,    \* useTokenStorage: the stored GitHub token, <<>> when none
    gitlabToken,    \* useTokenStorage: the stored GitLab token, <<>> when none
    lastResponse,   \* the responses received by the call that returned last
    tgEnv,          \* send-telegram-notification: the secrets of Deno.env
    tgRequest,      \* send-telegram-notification: the request being served
    tgPc,           \* send-telegram-notification: where the handler stands
    tgBodyRead,     \* send-telegram-notification: req.json() was called
    tgSent,         \* send-telegram-notification: the requests sent to Telegram
    tgReply,        \* send-telegram-notification: the reply of the Telegram API
    tgResponse,     \* send-telegram-notification: the Response returned
    llmConfig,      \* LLMConfiguration state: config, NoConfig when null
    llmIsLoading,   \* LLMConfiguration state: isLoading
    llmIsSaving,    \* LLMConfiguration state: isSaving
    llmLoads,       \* LLMConfiguration: the calls of loadConfiguration in flight
    llmSaves,       \* LLMConfiguration: the calls of saveConfiguration in flight
    llmToast,       \* LLMConfiguration: the notice shown last, NoToast when none
    stStored,       \* Settings: gitlabToken and githubToken of useTokenStorage
    stLocal,        \* Settings state: localGitlabToken and localGithubToken
    stVerifying,    \* Settings state: verifyingGitlab and verifyingGithub
    stVerified,     \* Settings state: gitlabVerified and githubVerified
    stPending,      \* Settings: the verification in flight, of each platform
    stToast,        \* Settings: the notice shown last, NoToast when none
    rvOpenMRs,      \* MergeReview state: openMRs, the URLs of the open MRs
    rvMrUrl,        \* MergeReview state: mrUrl
    rvHasAutoReviewed, \* MergeReview: hasAutoReviewed.current
    rvFetching,     \* MergeReview: a call of fetchOpenMRs is in progress
    rvFetches,      \* MergeReview: how many calls of fetchOpenMRs have succeeded
    rvAutoReviews,  \* MergeReview: how many times the effect called handleReview
    rvLastReview    \* MergeReview: the last call of handleReview, NoReview when none

parseVars == <<url, parsed>>
gitlabVars == <<change, mapped>>
uiVars == <<mrUrl, isLoading, filesChanged, selectedFile, diffHtml, viewMode,
            mrTitle, mrAuthor, inflight, toasts, githubToken, gitlabToken,
            lastResponse>>
tgVars == <<tgEnv, tgRequest, tgPc, tgBodyRead, tgSent, tgReply, tgResponse>>
llmVars == <<llmConfig, llmIsLoading, llmIsSaving, llmLoads, llmSaves, llmToast>>
stVars == <<stStored, stLocal, stVerifying, stVerified, stPending, stToast>>
rvVars == <<rvOpenMRs, rvMrUrl, rvHasAutoReviewed, rvFetching, rvFetches,
            rvAutoReviews, rvLastReview>>
vars == <<parseVars, gitlabVars, uiVars, tgVars, llmVars, stVars, rvVars>>

----------------------------------------------------------------------------
(* Values.  A string is a sequence of tokens; a value that may be absent   *)
(* (undefined) is a record.                                                *)

Undefined == [defined |-> FALSE]
Str(t) == [defined |-> TRUE, text |-> t]

\* JavaScript truthiness of an optional string: undefined and '' are falsy
Truthy(v) == v.defined /\ v.text # <<>>

----------------------------------------------------------------------------
(* parseMRUrl                                                              *)

DigitTokens == {"0", "1", "2", "3", "4", "5", "6", "7", "8", "9"}

\* the value null
Null == [platform |-> "null"]

\* String.prototype.match found nothing
NoMatch == <<>>

\* [^\/]+ from position i: the position after the longest run without "/"
RECURSIVE SegmentEnd(_, _)
SegmentEnd(s, i) ==
    IF i > Len(s) \/ s[i] = "/" THEN i ELSE SegmentEnd(s, i + 1)

\* (\d+) from position i: the position after the longest run of digits
RECURSIVE DigitsEnd(_, _)
DigitsEnd(s, i) ==
    IF i > Len(s) \/ s[i] \notin DigitTokens THEN i ELSE DigitsEnd(s, i + 1)

\* the literal text lit stands at position i of s
LiteralAt(s, i, lit) ==
    /\ i + Len(lit) - 1 <= Len(s)
    /\ SubSeq(s, i, i + Len(lit) - 1) = lit

\* host\/([^\/]+)\/([^\/]+) mid (\d+) matched with its first character at
\* position i: the three captured groups, or NoMatch
MatchAt(s, i, host, mid) ==
    LET ownerStart == i + 2
        ownerEnd   == SegmentEnd(s, ownerStart)
        repoStart  == ownerEnd + 1
        repoEnd    == SegmentEnd(s, repoStart)
        numStart   == repoEnd + Len(mid)
        numEnd     == DigitsEnd(s, numStart)
    IN  IF /\ LiteralAt(s, i, <<host, "/">>)
           /\ ownerEnd > ownerStart
           /\ LiteralAt(s, ownerEnd, <<"/">>)
           /\ repoEnd > repoStart
           /\ LiteralAt(s, repoEnd, mid)
           /\ numEnd > numStart
        THEN << SubSeq(s, ownerStart, ownerEnd - 1),
                SubSeq(s, repoStart, repoEnd - 1),
                SubSeq(s, numStart, numEnd - 1) >>
        ELSE NoMatch

\* url.match(regex), the regex not anchored: the leftmost match
RegexMatch(s, host, mid) ==
    LET starts == {i \in 1..Len(s) : MatchAt(s, i, host, mid) # NoMatch}
    IN  IF starts = {} THEN NoMatch
        ELSE MatchAt(s, CHOOSE i \in starts : \A j \in starts : i <= j, host, mid)

GithubTail == <<"/", "pull", "/">>
GitlabTail == <<"/", "-", "/", "merge_requests", "/">>

\* the same with the captured groups of owner and repository exchanged
parseMRUrl_SwappedGroups(u) ==
    LET githubMatch == RegexMatch(u, "github.com", GithubTail)
        gitlabMatch == RegexMatch(u, "gitlab.com", GitlabTail)
    IN  IF githubMatch # NoMatch
        THEN [platform |-> "github", owner |-> githubMatch[2],
              repo |-> githubMatch[1], mrNumber |-> githubMatch[3]]
        ELSE IF gitlabMatch # NoMatch
        THEN [platform |-> "gitlab", owner |-> gitlabMatch[1],
              repo |-> gitlabMatch[2], mrNumber |-> gitlabMatch[3]]
        ELSE Null

parseMRUrl(u) ==
    LET githubMatch == RegexMatch(u, "github.com", GithubTail)
        gitlabMatch == RegexMatch(u, "gitlab.com", GitlabTail)
    IN  IF githubMatch # NoMatch
        THEN [platform |-> "github", owner |-> githubMatch[1],
              repo |-> githubMatch[2], mrNumber |-> githubMatch[3]]
        ELSE IF gitlabMatch # NoMatch
        THEN [platform |-> "gitlab", owner |-> gitlabMatch[1],
              repo |-> gitlabMatch[2], mrNumber |-> gitlabMatch[3]]
        ELSE Null

----------------------------------------------------------------------------
(* The URLs parseMRUrl is called with: a prefix, a host, an owner, a       *)
(* repository, the text between repository and number, a number and a     *)
(* suffix, each drawn from a set that holds well-formed and malformed      *)
(* parts.                                                                  *)

UrlPrefixes ==
    { <<"https:", "/", "/">>, <<>>,
      <<"https:", "/", "/", "x">>, <<"https:", "/", "/", "x", "/">> }
UrlHosts == {"github.com", "gitlab.com", "bitbucket.org"}
UrlSegments == { <<>>, <<"acme">>, <<"widgets">>, <<"github.com">> }
UrlTails == { GithubTail, GitlabTail, <<"/", "merge_requests", "/">>, <<"/">> }
UrlNumbers == { <<>>, <<"4", "2">>, <<"7">>, <<"4", "x">>, <<"x">>, <<"x", "4">> }
UrlSuffixes == { <<>>, <<"/", "files">> }

UrlInputs ==
    { p \o <<h, "/">> \o o \o <<"/">> \o r \o t \o n \o x :
        p \in UrlPrefixes, h \in UrlHosts, o \in UrlSegments, r \in UrlSegments,
        t \in UrlTails, n \in UrlNumbers, x \in UrlSuffixes }

NotParsed == [platform |-> "not called"]

NotMapped == [status |-> "not mapped"]

IdleParse == url = <<>> /\ parsed = NotParsed
IdleGitLab == change = [diff |-> Undefined] /\ mapped = NotMapped

\* selectedFile = null, diffHtml = ''
NoFile == [status |-> "null"]
NoHtml == [outputFormat |-> "none"]

\* the state of CodeDiff after its first render
InitCodeDiff ==
    /\ mrUrl = <<>>
    /\ isLoading = FALSE
    /\ filesChanged = <<>>
    /\ selectedFile = NoFile
    /\ diffHtml = NoHtml
    /\ viewMode = "side-by-side"
    /\ mrTitle = <<>>
    /\ mrAuthor = <<>>
    /\ inflight = <<>>
    /\ toasts = <<>>

\* no call of handleFetchDiff has returned since the last one started
NoResponse == [platform |-> "none"]

\* no token is stored, nothing was received
NoTokens ==
    /\ githubToken = <<>>
    /\ gitlabToken = <<>>
    /\ lastResponse = NoResponse

\* LLMConfiguration: config is null, no notice is shown
NoConfig == [project_id |-> "null"]
NoToast == [title |-> "none"]

\* the LLMConfiguration component is not mounted
IdleLLM ==
    /\ llmConfig = NoConfig
    /\ llmIsLoading = FALSE
    /\ llmIsSaving = FALSE
    /\ llmLoads = 0
    /\ llmSaves = 0
    /\ llmToast = NoToast

\* MergeReview: no call of handleReview yet
NoReview == [url |-> "none", automatic |-> FALSE, fetch |-> 0]

\* the Merge Review page as mounted, before any event
IdleReview ==
    /\ rvOpenMRs = <<>>
    /\ rvMrUrl = ""
    /\ rvHasAutoReviewed = FALSE
    /\ rvFetching = FALSE
    /\ rvFetches = 0
    /\ rvAutoReviews = 0
    /\ rvLastReview = NoReview

\* Settings: the two platforms, no verification in flight
Platforms == {"gitlab", "github"}
NoVerification == [token |-> "none", started |-> FALSE]

\* the Settings page is not mounted
IdleSettings ==
    /\ stStored = [p \in Platforms |-> ""]
    /\ stLocal = [p \in Platforms |-> ""]
    /\ stVerifying = [p \in Platforms |-> FALSE]
    /\ stVerified = [p \in Platforms |-> FALSE]
    /\ stPending = [p \in Platforms |-> NoVerification]
    /\ stToast = NoToast

\* the values of the handler of send-telegram-notification between requests
NoRequest == [method |-> "none"]
NoReply == [kind |-> "none"]
NoAnswer == [status |-> 0, success |-> FALSE, error |-> <<>>]

\* send-telegram-notification serves no request and no secret is set
IdleTelegram ==
    /\ tgEnv = [TELEGRAM_BOT_TOKEN |-> Undefined, TELEGRAM_CHAT_ID |-> Undefined]
    /\ tgRequest = NoRequest
    /\ tgPc = "idle"
    /\ tgBodyRead = FALSE
    /\ tgSent = <<>>
    /\ tgReply = NoReply
    /\ tgResponse = NoAnswer

InitParse ==
    /\ url \in UrlInputs
    /\ parsed = NotParsed
    /\ IdleGitLab
    /\ InitCodeDiff
    /\ NoTokens
    /\ IdleTelegram
    /\ IdleLLM
    /\ IdleSettings
    /\ IdleReview

CallParseMRUrl ==
    /\ parsed = NotParsed
    /\ parsed' = parseMRUrl(url)
    /\ UNCHANGED <<url, gitlabVars, uiVars, tgVars, llmVars, stVars, rvVars>>

NextParse == CallParseMRUrl

SpecParse == InitParse /\ [][NextParse]_vars

----------------------------------------------------------------------------
(* The two supported URL shapes, stated on the path segments of the URL   *)
(* (the text between the "/"), independently of the regular expressions.  *)

RECURSIVE SplitOn(_, _)
SplitOn(s, sep) ==
    IF \A i \in 1..Len(s) : s[i] # sep THEN <<s>>
    ELSE LET k == CHOOSE i \in 1..Len(s) :
                      s[i] = sep /\ \A j \in 1..(i - 1) : s[j] # sep
         IN  <<SubSeq(s, 1, k - 1)>> \o SplitOn(SubSeq(s, k + 1, Len(s)), sep)

Split(s) == SplitOn(s, "/")

AllDigits(seg) == seg # <<>> /\ \A i \in 1..Len(seg) : seg[i] \in DigitTokens

\* the "..." of a shape names no platform host
HostFree(segs) ==
    \A k \in 1..Len(segs) : \A i \in 1..Len(segs[k]) :
        segs[k][i] \notin {"github.com", "gitlab.com"}

\* .../github.com/{owner}/{repo}/pull/{number}
IsGithubShape(u) ==
    LET segs == Split(u)
        n    == Len(segs)
    IN  /\ n >= 5
        /\ HostFree(SubSeq(segs, 1, n - 5))
        /\ segs[n - 4] = <<"github.com">>
        /\ segs[n - 3] # <<>>
        /\ segs[n - 2] # <<>>
        /\ segs[n - 1] = <<"pull">>
        /\ AllDigits(segs[n])

\* .../gitlab.com/{owner}/{repo}/-/merge_requests/{number}
IsGitlabShape(u) ==
    LET segs == Split(u)
        n    == Len(segs)
    IN  /\ n >= 6
        /\ HostFree(SubSeq(segs, 1, n - 6))
        /\ segs[n - 5] = <<"gitlab.com">>
        /\ segs[n - 4] # <<>>
        /\ segs[n - 3] # <<>>
        /\ segs[n - 2] = <<"-">>
        /\ segs[n - 1] = <<"merge_requests">>
        /\ AllDigits(segs[n])

\* C1: for a URL of the shape .../github.com/{owner}/{repo}/pull/{number}
\* parseMRUrl returns platform github with owner, repo and mrNumber the
\* path segments of the URL, and for a URL of the shape
\* .../gitlab.com/{owner}/{repo}/-/merge_requests/{number} platform gitlab
\* with its segments.
C1_ShapeGivesSegments ==
    parsed # NotParsed =>
        LET segs == Split(url)
            n    == Len(segs)
        IN  /\ IsGithubShape(url) =>
                parsed = [platform |-> "github", owner |-> segs[n - 3],
                          repo |-> segs[n - 2], mrNumber |-> segs[n]]
            /\ IsGitlabShape(url) =>
                parsed = [platform |-> "gitlab", owner |-> segs[n - 4],
                          repo |-> segs[n - 3], mrNumber |-> segs[n]]

\* C1 witness: https://github.com/acme/widgets/pull/42 has been parsed
C1_Witness ==
    /\ url = <<"https:", "/", "/", "github.com", "/", "acme", "/", "widgets",
               "/", "pull", "/", "4", "2">>
    /\ IsGithubShape(url)
    /\ parsed = [platform |-> "github", owner |-> <<"acme">>,
                 repo |-> <<"widgets">>, mrNumber |-> <<"4", "2">>]

\* C2: for every string that is not of one of the two supported shapes
\* (another host, a number followed by other characters in its segment, a
\* missing owner, repo or number) parseMRUrl returns null.
C2_OtherShapeGivesNull ==
    (parsed # NotParsed /\ ~IsGithubShape(url) /\ ~IsGitlabShape(url))
        => parsed = Null

----------------------------------------------------------------------------
(* fetchGitLabMR: the mapping of one entry of changesData.changes to a     *)
(* FileChange.                                                             *)

MaxDiffLen == 4

DiffChars == {"+", "-", "x", "\n"}

\* position i of t is where ^ matches under the m flag
AtLineStart(t, i) == i = 1 \/ t[i - 1] = "\n"

\* the number of matches of /^c[^c]/gm in t found from position i on: a
\* match takes two characters and the search goes on after it
RECURSIVE CountFrom(_, _, _)
CountFrom(t, i, c) ==
    IF i > Len(t) THEN 0
    ELSE IF AtLineStart(t, i) /\ t[i] = c /\ i + 1 <= Len(t) /\ t[i + 1] # c
         THEN 1 + CountFrom(t, i + 2, c)
         ELSE CountFrom(t, i + 1, c)

\* (change.diff?.match(/^c[^c]/gm) || []).length
MatchCount(diff, c) ==
    IF diff.defined THEN CountFrom(diff.text, 1, c) ELSE 0

\* the same without the branch for renamed_file
GitLabStatus_NoRenamed(c) ==
    IF c.new_file THEN "added"
    ELSE IF c.deleted_file THEN "removed"
    ELSE "modified"

GitLabStatus(c) ==
    IF c.new_file THEN "added"
    ELSE IF c.deleted_file THEN "removed"
    ELSE IF c.renamed_file THEN "renamed"
    ELSE "modified"

\* the same with old_path preferred to new_path
GitLabFileChange_OldPathFirst(c) ==
    [ filename  |-> IF Truthy(c.old_path) THEN c.old_path ELSE c.new_path,
      status    |-> GitLabStatus(c),
      additions |-> MatchCount(c.diff, "+"),
      deletions |-> MatchCount(c.diff, "-"),
      patch     |-> c.diff ]

\* one entry of changesData.changes mapped to a FileChange
GitLabFileChange(c) ==
    [ filename  |-> IF Truthy(c.new_path) THEN c.new_path ELSE c.old_path,
      status    |-> GitLabStatus(c),
      additions |-> MatchCount(c.diff, "+"),
      deletions |-> MatchCount(c.diff, "-"),
      patch     |-> c.diff ]

\* "+foo\n++bar\n-baz\n--qux\n"
ExampleFragment ==
    << "+", "f", "o", "o", "\n", "+", "+", "b", "a", "r", "\n",
       "-", "b", "a", "z", "\n", "-", "-", "q", "u", "x", "\n" >>

DiffTexts ==
    UNION {[1..n -> DiffChars] : n \in 0..MaxDiffLen} \cup {ExampleFragment}

GitLabChanges ==
    [ new_file : BOOLEAN, deleted_file : BOOLEAN, renamed_file : BOOLEAN,
      diff : {Undefined} \cup {Str(t) : t \in DiffTexts},
      new_path : {Undefined, Str(<<>>), Str(<<"new.ts">>)},
      old_path : {Str(<<"old.ts">>)} ]

InitGitLab ==
    /\ change \in GitLabChanges
    /\ mapped = NotMapped
    /\ IdleParse
    /\ InitCodeDiff
    /\ NoTokens
    /\ IdleTelegram
    /\ IdleLLM
    /\ IdleSettings
    /\ IdleReview

MapChange ==
    /\ mapped = NotMapped
    /\ mapped' = GitLabFileChange(change)
    /\ UNCHANGED <<change, parseVars, uiVars, tgVars, llmVars, stVars, rvVars>>

NextGitLab == MapChange

SpecGitLab == InitGitLab /\ [][NextGitLab]_vars

\* the lines of a text: what stands between its line feeds
Lines(diff) == IF diff.defined THEN SplitOn(diff.text, "\n") ELSE <<>>

\* the number of lines that start with exactly one c
LinesWithOne(diff, c) ==
    Cardinality({k \in 1..Len(Lines(diff)) :
        LET line == Lines(diff)[k]
        IN  /\ Len(line) >= 1
            /\ line[1] = c
            /\ (Len(line) = 1 \/ line[2] # c)})

\* C6: for every FileChange of fetchGitLabMR additions is the number of
\* lines of the diff that start with exactly one "+" and deletions the
\* number of lines that start with exactly one "-", for every diff text
\* (a line that is just "+" or "-", a last line without line feed, no diff).
C6_CountsAreLineCounts ==
    mapped # NotMapped =>
        /\ mapped.additions = LinesWithOne(change.diff, "+")
        /\ mapped.deletions = LinesWithOne(change.diff, "-")

FlagsSet(c) ==
    Cardinality({f \in {"new_file", "deleted_file", "renamed_file"} : c[f]})

\* C8: an entry with more than one of new_file, deleted_file and
\* renamed_file true gets the status 'modified'.
C8_InconsistentGivesModified ==
    (mapped # NotMapped /\ FlagsSet(change) > 1) => mapped.status = "modified"

\* C9 as stated: the status is 'added' when new_file is true, 'removed'
\* when deleted_file is true, 'renamed' when renamed_file is true and
\* 'modified' when none of them is.
C9_AsStated ==
    mapped # NotMapped =>
        /\ change.new_file => mapped.status = "added"
        /\ change.deleted_file => mapped.status = "removed"
        /\ change.renamed_file => mapped.status = "renamed"
        /\ FlagsSet(change) = 0 => mapped.status = "modified"

\* C9 amended: for an entry with at most one of the three flags true, the
\* status is 'added' when new_file is true, 'removed' when deleted_file is
\* true, 'renamed' when renamed_file is true and 'modified' when none is.
C9_StatusOfConsistentEntry ==
    (mapped # NotMapped /\ FlagsSet(change) <= 1) =>
        /\ change.new_file => mapped.status = "added"
        /\ change.deleted_file => mapped.status = "removed"
        /\ change.renamed_file => mapped.status = "renamed"
        /\ FlagsSet(change) = 0 => mapped.status = "modified"

\* C9 witness: an entry with only renamed_file true has been mapped
C9_Witness ==
    /\ change.renamed_file /\ FlagsSet(change) = 1
    /\ mapped # NotMapped
    /\ mapped.status = "renamed"

\* a path the entry carries: a string that is not empty
PathPresent(v) == v.defined /\ v.text # <<>>

\* C15: the filename of a mapped GitLab change entry is its new_path when
\* the entry carries a new_path, and its old_path when it carries none.
C15_FilenamePrefersNewPath ==
    mapped # NotMapped =>
        /\ PathPresent(change.new_path) => mapped.filename = change.new_path
        /\ ~PathPresent(change.new_path) => mapped.filename = change.old_path

\* C15 witness: an entry with both paths has been mapped to its new_path
C15_Witness ==
    /\ mapped # NotMapped
    /\ change.new_path = Str(<<"new.ts">>)
    /\ change.old_path = Str(<<"old.ts">>)
    /\ mapped.filename = Str(<<"new.ts">>)

----------------------------------------------------------------------------
(* CodeDiff: the handlers of the component.  A handler reads the state of  *)
(* the render it was created in; a call of handleFetchDiff that waits for  *)
(* its responses keeps that render's values (cap).                         *)

MaxFiles == 2
MaxInFlight == 2

ViewModes == {"side-by-side", "unified"}

GithubUrl == <<"https:", "/", "/", "github.com", "/", "acme", "/", "widgets",
               "/", "pull", "/", "4", "2">>
GitlabUrl == <<"https:", "/", "/", "gitlab.com", "/", "acme", "/", "widgets",
               "/", "-", "/", "merge_requests", "/", "7">>
BitbucketUrl == <<"https:", "/", "/", "bitbucket.org", "/", "x", "/", "y",
                  "/", "pull", "/", "1">>

\* what the user types into the URL input
UiUrls == {<<>>, BitbucketUrl, GithubUrl, GitlabUrl}

\* entries of the file array of the GitHub API: a text file, a binary file
\* (no patch) and a file whose patch the diff library rejects
GitHubFileEntries ==
    { [filename |-> Str(<<"a.ts">>), status |-> "modified", additions |-> 1,
       deletions |-> 0, patch |-> Str(<<"+", "x", "\n">>)],
      [filename |-> Str(<<"b.png">>), status |-> "added", additions |-> 0,
       deletions |-> 0, patch |-> Undefined],
      [filename |-> Str(<<"c.ts">>), status |-> "removed", additions |-> 0,
       deletions |-> 1, patch |-> Str(<<"!">>)] }

\* entries of the changes array of the GitLab API, likewise
GitLabChangeEntries ==
    { [new_file |-> FALSE, deleted_file |-> FALSE, renamed_file |-> FALSE,
       diff |-> Str(<<"+", "x", "\n">>),
       new_path |-> Str(<<"a.ts">>), old_path |-> Str(<<"a.ts">>)],
      [new_file |-> TRUE, deleted_file |-> FALSE, renamed_file |-> FALSE,
       diff |-> Str(<<>>),
       new_path |-> Str(<<"b.png">>), old_path |-> Str(<<"b.png">>)],
      [new_file |-> FALSE, deleted_file |-> TRUE, renamed_file |-> FALSE,
       diff |-> Str(<<"!">>),
       new_path |-> Str(<<"c.ts">>), old_path |-> Str(<<"c.ts">>)] }

ListsOf(S) == UNION {[1..n -> S] : n \in 0..MaxFiles}

\* the bodies of the two GitHub responses: prData and filesData
GitHubMetaBodies ==
    [title : {<<"T1">>, <<"T2">>}, login : {Undefined, Str(<<"alice">>)}]
GitHubFilesBodies == ListsOf(GitHubFileEntries)

\* the bodies of the two GitLab responses: mrData and changesData
GitLabMetaBodies ==
    [title : {<<"T3">>}, username : {Undefined, Str(<<"bob">>)}]
GitLabChangesBodies ==
    {[changes |-> [defined |-> FALSE]]}
        \cup {[changes |-> [defined |-> TRUE, items |-> l]] :
                l \in ListsOf(GitLabChangeEntries)}

Toast(t, d, v) == [title |-> t, description |-> d, variant |-> v]

RemoveAt(q, i) == SubSeq(q, 1, i - 1) \o SubSeq(q, i + 1, Len(q))

\* parse (diff2html) throws on this patch
ParseThrows(patch) == \E i \in 1..Len(patch) : patch[i] = "!"

OutputFormat(vm) == IF vm = "side-by-side" THEN "side-by-side" ELSE "line-by-line"

\* generateDiffHtml(patch, filename) run by a handler of a render whose
\* viewMode is vm: the new diffHtml and the notices shown
generateDiffHtml(patch, filename, vm, oldHtml) ==
    IF ParseThrows(patch)
    THEN [diffHtml |-> oldHtml,
          toasts |-> <<Toast("Error generating diff",
                             "Failed to parse the diff. The patch format might be invalid.",
                             "destructive")>>]
    ELSE [diffHtml |-> [outputFormat |-> OutputFormat(vm),
                        filename |-> filename, patch |-> patch],
          toasts |-> <<>>]

\* the body of a response, as response.json() gives it: not read, no JSON,
\* a JSON object or a JSON array
NoBody == [kind |-> "none"]
Unparsable == [kind |-> "unparsable"]
JsonObject(v) == [kind |-> "object", value |-> v]
JsonArray(v) == [kind |-> "array", value |-> v]

\* what call f had received when it returned: the status of its two
\* responses and the bodies it read
Received(f, metaBody, filesBody) ==
    [platform |-> f.parsed.platform, requests |-> f.requests,
     meta |-> f.meta, files |-> f.files,
     metaBody |-> metaBody, filesBody |-> filesBody]

\* the values useTokenStorage can hold
GithubTokens == {<<>>, <<"ghp_1">>}
GitlabTokens == {<<>>, <<"glpat_1">>}

\* the headers of fetchGitHubPR with the Authorization header always set
GitHubHeaders_Always(token) ==
    { <<"Accept", <<"application/vnd.github.v3+json">>>>,
      <<"Authorization", <<"Bearer ">> \o token>> }

\* the headers of fetchGitHubPR: names with their values
GitHubHeaders(token) ==
    { <<"Accept", <<"application/vnd.github.v3+json">>>> }
        \cup IF token # <<>> THEN { <<"Authorization", <<"Bearer ">> \o token>> }
                             ELSE {}

\* the headers of fetchGitLabMR
GitLabHeaders(token) ==
    IF token # <<>> THEN { <<"PRIVATE-TOKEN", token>> } ELSE {}

\* the two requests an adapter issues for the parsed reference p
IssuedRequests(p) ==
    IF p.platform = "github"
    THEN [meta  |-> [host |-> "api.github.com", path |-> "pulls/{number}",
                     headers |-> GitHubHeaders(githubToken)],
          files |-> [host |-> "api.github.com", path |-> "pulls/{number}/files",
                     headers |-> GitHubHeaders(githubToken)]]
    ELSE [meta  |-> [host |-> "gitlab.com", path |-> "merge_requests/{number}",
                     headers |-> GitLabHeaders(gitlabToken)],
          files |-> [host |-> "gitlab.com", path |-> "merge_requests/{number}/changes",
                     headers |-> GitLabHeaders(gitlabToken)]]

\* the FileChange of one entry of filesData with additions and deletions
\* exchanged
GitHubFileChange_SwappedCounts(file) ==
    [filename  |-> file.filename,
     status    |-> file.status,
     additions |-> file.deletions,
     deletions |-> file.additions,
     patch     |-> file.patch]

\* the FileChange of one entry of filesData
GitHubFileChange(file) ==
    [filename  |-> file.filename,
     status    |-> file.status,
     additions |-> file.additions,
     deletions |-> file.deletions,
     patch     |-> file.patch]

\* the Load button: disabled={isLoading}
LoadButtonEnabled_Always == TRUE

LoadButtonEnabled == ~isLoading

\* the render a handler was created in
Render ==
    [viewMode |-> viewMode, filesChanged |-> filesChanged,
     selectedFile |-> selectedFile, diffHtml |-> diffHtml]

\* onChange of the URL input
setMrUrl(u) ==
    /\ mrUrl' = u
    /\ UNCHANGED <<isLoading, filesChanged, selectedFile, diffHtml, viewMode,
                   mrTitle, mrAuthor, inflight, toasts, githubToken, gitlabToken,
                   lastResponse>>

\* handleFetchDiff without the three calls that empty the display
handleFetchDiff_NoClear ==
    /\ LoadButtonEnabled
    /\ Len(inflight) < MaxInFlight
    /\ IF mrUrl = <<>>
       THEN /\ toasts' = <<Toast("MR URL required",
                                 "Please enter a merge request URL", "destructive")>>
            /\ UNCHANGED <<isLoading, filesChanged, selectedFile, diffHtml, inflight,
                           lastResponse>>
       ELSE IF parseMRUrl(mrUrl) = Null
       THEN /\ toasts' = <<Toast("Invalid URL",
                                 "Please enter a valid GitHub or GitLab MR URL",
                                 "destructive")>>
            /\ UNCHANGED <<isLoading, filesChanged, selectedFile, diffHtml, inflight,
                           lastResponse>>
       ELSE /\ isLoading' = TRUE
            /\ UNCHANGED <<filesChanged, selectedFile, diffHtml>>
            /\ inflight' = Append(inflight,
                   [parsed |-> parseMRUrl(mrUrl), cap |-> Render,
                    requests |-> IssuedRequests(parseMRUrl(mrUrl)),
                    meta |-> "pending", files |-> "pending"])
            /\ lastResponse' = NoResponse
            /\ toasts' = <<>>
    /\ UNCHANGED <<mrUrl, viewMode, mrTitle, mrAuthor, githubToken, gitlabToken>>

\* the same with the display cleared before the URL is looked at
handleFetchDiff_ClearFirst ==
    /\ LoadButtonEnabled
    /\ Len(inflight) < MaxInFlight
    /\ IF mrUrl = <<>>
       THEN /\ toasts' = <<Toast("MR URL required",
                                 "Please enter a merge request URL", "destructive")>>
            /\ filesChanged' = <<>>
            /\ selectedFile' = NoFile
            /\ diffHtml' = NoHtml
            /\ UNCHANGED <<isLoading, inflight, lastResponse>>
       ELSE IF parseMRUrl(mrUrl) = Null
       THEN /\ toasts' = <<Toast("Invalid URL",
                                 "Please enter a valid GitHub or GitLab MR URL",
                                 "destructive")>>
            /\ filesChanged' = <<>>
            /\ selectedFile' = NoFile
            /\ diffHtml' = NoHtml
            /\ UNCHANGED <<isLoading, inflight, lastResponse>>
       ELSE /\ isLoading' = TRUE
            /\ filesChanged' = <<>>
            /\ selectedFile' = NoFile
            /\ diffHtml' = NoHtml
            /\ inflight' = Append(inflight,
                   [parsed |-> parseMRUrl(mrUrl), cap |-> Render,
                    requests |-> IssuedRequests(parseMRUrl(mrUrl)),
                    meta |-> "pending", files |-> "pending"])
            /\ lastResponse' = NoResponse
            /\ toasts' = <<>>
    /\ UNCHANGED <<mrUrl, viewMode, mrTitle, mrAuthor, githubToken, gitlabToken>>

\* handleFetchDiff up to its first await: the checks of the URL, the reset
\* of the display and the two requests of the adapter, both issued
handleFetchDiff ==
    /\ LoadButtonEnabled
    /\ Len(inflight) < MaxInFlight
    /\ IF mrUrl = <<>>
       THEN /\ toasts' = <<Toast("MR URL required",
                                 "Please enter a merge request URL", "destructive")>>
            /\ UNCHANGED <<isLoading, filesChanged, selectedFile, diffHtml, inflight,
                           lastResponse>>
       ELSE IF parseMRUrl(mrUrl) = Null
       THEN /\ toasts' = <<Toast("Invalid URL",
                                 "Please enter a valid GitHub or GitLab MR URL",
                                 "destructive")>>
            /\ UNCHANGED <<isLoading, filesChanged, selectedFile, diffHtml, inflight,
                           lastResponse>>
       ELSE /\ isLoading' = TRUE
            /\ filesChanged' = <<>>
            /\ selectedFile' = NoFile
            /\ diffHtml' = NoHtml
            /\ inflight' = Append(inflight,
                   [parsed |-> parseMRUrl(mrUrl), cap |-> Render,
                    requests |-> IssuedRequests(parseMRUrl(mrUrl)),
                    meta |-> "pending", files |-> "pending"])
            /\ lastResponse' = NoResponse
            /\ toasts' = <<>>
    /\ UNCHANGED <<mrUrl, viewMode, mrTitle, mrAuthor, githubToken, gitlabToken>>

\* one of the two requests of call i is answered: with a success status,
\* with another status, or not at all (fetch rejects)
Respond(i, which, outcome) ==
    /\ inflight[i][which] = "pending"
    /\ inflight' = [inflight EXCEPT ![i][which] = outcome]
    /\ UNCHANGED <<mrUrl, isLoading, filesChanged, selectedFile, diffHtml,
                   viewMode, mrTitle, mrAuthor, toasts, githubToken, gitlabToken,
                   lastResponse>>

\* Promise.all rejects as soon as one request rejects
Rejected(f) == f.meta = "rejected" \/ f.files = "rejected"

\* Promise.all is settled: both requests answered, or one rejected
Settled(f) == Rejected(f) \/ (f.meta # "pending" /\ f.files # "pending")

\* !prResponse.ok && !filesResponse.ok
ResponsesNotOk_And(f) == f.meta # "ok" /\ f.files # "ok"

\* !prResponse.ok || !filesResponse.ok
ResponsesNotOk(f) == f.meta # "ok" \/ f.files # "ok"

\* the catch block of handleFetchDiff without its finally block
FetchFailed_NoFinally(i, message) ==
    /\ toasts' = <<Toast("Failed to fetch diff", message, "destructive")>>
    /\ inflight' = RemoveAt(inflight, i)
    /\ UNCHANGED <<mrUrl, isLoading, filesChanged, selectedFile, diffHtml, viewMode,
                   mrTitle, mrAuthor, githubToken, gitlabToken>>

\* the catch and finally blocks of handleFetchDiff, for call i
FetchFailed(i, message) ==
    /\ toasts' = <<Toast("Failed to fetch diff", message, "destructive")>>
    /\ isLoading' = FALSE
    /\ inflight' = RemoveAt(inflight, i)
    /\ UNCHANGED <<mrUrl, filesChanged, selectedFile, diffHtml, viewMode,
                   mrTitle, mrAuthor, githubToken, gitlabToken>>

\* the end of an adapter and of handleFetchDiff, for call i: the state
\* written from the title, the author and the mapped file list, the
\* selection of files[0], the success notice and the finally block
FetchSucceeded(i, title, author, files) ==
    LET f == inflight[i]
        select == Len(files) > 0 /\ Truthy(files[1].patch)
        r == generateDiffHtml(files[1].patch.text, files[1].filename,
                              f.cap.viewMode, diffHtml)
    IN  /\ mrTitle' = title
        /\ mrAuthor' = author
        /\ filesChanged' = files
        /\ selectedFile' = IF select THEN files[1] ELSE selectedFile
        /\ diffHtml' = IF select THEN r.diffHtml ELSE diffHtml
        /\ toasts' = (IF select THEN r.toasts ELSE <<>>)
               \o <<Toast("Diff loaded successfully",
                          "Loaded changes for " \o ToString(Len(f.cap.filesChanged)) \o " files",
                          "default")>>
        /\ isLoading' = FALSE
        /\ inflight' = RemoveAt(inflight, i)
        /\ UNCHANGED <<mrUrl, viewMode, githubToken, gitlabToken>>

\* fetchGitHubPR after Promise.all, within the try of handleFetchDiff
fetchGitHubPR(i) ==
    LET f == inflight[i]
    IN  /\ f.parsed.platform = "github"
        /\ Settled(f)
        /\ IF Rejected(f)
           THEN /\ FetchFailed(i, "Failed to fetch")
                /\ lastResponse' = Received(f, NoBody, NoBody)
           ELSE IF ResponsesNotOk(f)
           THEN /\ FetchFailed(i, "Failed to fetch GitHub PR details")
                /\ lastResponse' = Received(f, NoBody, NoBody)
           ELSE \/ /\ FetchFailed(i, "Unexpected token in JSON")
                   /\ \/ lastResponse' = Received(f, Unparsable, NoBody)
                      \/ \E prData \in GitHubMetaBodies :
                            lastResponse' = Received(f, JsonObject(prData), Unparsable)
                \/ \E prData \in GitHubMetaBodies, filesData \in GitHubFilesBodies :
                     /\ FetchSucceeded(i, prData.title,
                          IF Truthy(prData.login) THEN prData.login.text
                                                  ELSE <<"Unknown">>,
                          [k \in 1..Len(filesData) |-> GitHubFileChange(filesData[k])])
                     /\ lastResponse' =
                          Received(f, JsonObject(prData), JsonArray(filesData))

\* fetchGitLabMR after Promise.all, within the try of handleFetchDiff
fetchGitLabMR(i) ==
    LET f == inflight[i]
    IN  /\ f.parsed.platform = "gitlab"
        /\ Settled(f)
        /\ IF Rejected(f)
           THEN /\ FetchFailed(i, "Failed to fetch")
                /\ lastResponse' = Received(f, NoBody, NoBody)
           ELSE IF ResponsesNotOk(f)
           THEN /\ FetchFailed(i, "Failed to fetch GitLab MR details")
                /\ lastResponse' = Received(f, NoBody, NoBody)
           ELSE \/ /\ FetchFailed(i, "Unexpected token in JSON")
                   /\ \/ lastResponse' = Received(f, Unparsable, NoBody)
                      \/ \E mrData \in GitLabMetaBodies :
                            lastResponse' = Received(f, JsonObject(mrData), Unparsable)
                \/ \E mrData \in GitLabMetaBodies, changesData \in GitLabChangesBodies :
                     LET changes == IF changesData.changes.defined
                                    THEN changesData.changes.items ELSE <<>>
                     IN  /\ FetchSucceeded(i, mrData.title,
                              IF Truthy(mrData.username) THEN mrData.username.text
                                                         ELSE <<"Unknown">>,
                              [k \in 1..Len(changes) |-> GitLabFileChange(changes[k])])
                         /\ lastResponse' =
                              Received(f, JsonObject(mrData), JsonObject(changesData))

\* a click on the button of a file of the list
handleFileSelect(file) ==
    LET render == Truthy(file.patch)
        r == generateDiffHtml(file.patch.text, file.filename, viewMode, diffHtml)
    IN  /\ selectedFile' = file
        /\ diffHtml' = IF render THEN r.diffHtml ELSE diffHtml
        /\ toasts' = IF render THEN r.toasts ELSE <<>>
        /\ UNCHANGED <<mrUrl, isLoading, filesChanged, viewMode, mrTitle,
                       mrAuthor, inflight, githubToken, gitlabToken, lastResponse>>

\* a click on a tab of the view-mode toggle, shown while the list is not
\* empty: the handler renders with the viewMode of its own render
handleViewModeChange(mode) ==
    LET render == selectedFile # NoFile /\ Truthy(selectedFile.patch)
        r == generateDiffHtml(selectedFile.patch.text, selectedFile.filename,
                              viewMode, diffHtml)
    IN  /\ Len(filesChanged) > 0
        /\ viewMode' = mode
        /\ diffHtml' = IF render THEN r.diffHtml ELSE diffHtml
        /\ toasts' = IF render THEN r.toasts ELSE <<>>
        /\ UNCHANGED <<mrUrl, isLoading, filesChanged, selectedFile, mrTitle,
                       mrAuthor, inflight, githubToken, gitlabToken, lastResponse>>

Init ==
    /\ InitCodeDiff
    /\ githubToken \in GithubTokens
    /\ gitlabToken \in GitlabTokens
    /\ lastResponse = NoResponse
    /\ IdleParse
    /\ IdleGitLab
    /\ IdleTelegram
    /\ IdleLLM
    /\ IdleSettings
    /\ IdleReview

Next ==
    \/ /\ \E u \in UiUrls : setMrUrl(u)
       /\ UNCHANGED <<parseVars, gitlabVars, tgVars, llmVars, stVars, rvVars>>
    \/ /\ handleFetchDiff
       /\ UNCHANGED <<parseVars, gitlabVars, tgVars, llmVars, stVars, rvVars>>
    \/ /\ \E i \in 1..Len(inflight), which \in {"meta", "files"},
             outcome \in {"ok", "http_error", "rejected"} :
                Respond(i, which, outcome)
       /\ UNCHANGED <<parseVars, gitlabVars, tgVars, llmVars, stVars, rvVars>>
    \/ /\ \E i \in 1..Len(inflight) : fetchGitHubPR(i)
       /\ UNCHANGED <<parseVars, gitlabVars, tgVars, llmVars, stVars, rvVars>>
    \/ /\ \E i \in 1..Len(inflight) : fetchGitLabMR(i)
       /\ UNCHANGED <<parseVars, gitlabVars, tgVars, llmVars, stVars, rvVars>>
    \/ /\ \E k \in 1..Len(filesChanged) : handleFileSelect(filesChanged[k])
       /\ UNCHANGED <<parseVars, gitlabVars, tgVars, llmVars, stVars, rvVars>>
    \/ /\ \E mode \in ViewModes : handleViewModeChange(mode)
       /\ UNCHANGED <<parseVars, gitlabVars, tgVars, llmVars, stVars, rvVars>>

Spec == Init /\ [][Next]_vars

----------------------------------------------------------------------------
(* Properties of handleFetchDiff and the adapters                          *)

FailureToast(t) == t.title = "Failed to fetch diff" /\ t.variant = "destructive"
SuccessToast(t) == t.title = "Diff loaded successfully"

\* this step is the return of a call of handleFetchDiff
FetchReturns(i) == i \in 1..Len(inflight) /\ inflight' = RemoveAt(inflight, i)

\* this step is the return of call i after a failure (the catch block ran)
FetchFails(i) ==
    /\ FetchReturns(i)
    /\ Len(toasts') = 1
    /\ FailureToast(toasts'[1])

\* this step is the return of call i after a success
FetchSucceeds(i) ==
    /\ FetchReturns(i)
    /\ Len(toasts') >= 1
    /\ SuccessToast(toasts'[Len(toasts')])

\* C3 as stated: when a call of handleFetchDiff fails, the file list, the
\* selected file and the rendered diff are afterwards those displayed when
\* it was started.
C3_FailureKeepsDisplay ==
    [][\A i \in 1..Len(inflight) :
          FetchFails(i) =>
              /\ filesChanged' = inflight[i].cap.filesChanged
              /\ selectedFile' = inflight[i].cap.selectedFile
              /\ diffHtml' = inflight[i].cap.diffHtml]_vars

\* C3 amended: a call of handleFetchDiff empties the file list, the
\* selected file and the rendered diff when it starts; when it fails they
\* are empty after it returns, and title and author are unchanged.
C3_FailureLeavesDisplayEmpty ==
    [][\A i \in 1..Len(inflight) :
          FetchFails(i) =>
              /\ filesChanged' = <<>>
              /\ selectedFile' = NoFile
              /\ diffHtml' = NoHtml
              /\ mrTitle' = mrTitle
              /\ mrAuthor' = mrAuthor]_vars

\* C3 witness: a fetch has failed after an earlier one had succeeded
C3_Witness ==
    /\ Len(toasts) = 1 /\ FailureToast(toasts[1])
    /\ mrTitle # <<>>
    /\ filesChanged = <<>>
    /\ inflight = <<>> /\ ~isLoading

\* C4: both requests of an adapter are issued together and awaited
\* together, and when one of them has no success status the call returns
\* without writing mrTitle, mrAuthor, filesChanged or selectedFile, with the
\* failure notice and no success notice.
C4_FailedResponseWritesNothing ==
    [][/\ Len(inflight') > Len(inflight) =>
            /\ inflight'[Len(inflight')].meta = "pending"
            /\ inflight'[Len(inflight')].files = "pending"
       /\ \A i \in 1..Len(inflight) :
            FetchReturns(i) =>
              /\ Settled(inflight[i])
              /\ (inflight[i].meta # "ok" \/ inflight[i].files # "ok") =>
                    /\ UNCHANGED <<mrTitle, mrAuthor, filesChanged, selectedFile>>
                    /\ Len(toasts') = 1
                    /\ FailureToast(toasts'[1])]_vars

\* C4 witness: a GitHub fetch has returned on a non-success status
C4_Witness ==
    /\ toasts = <<Toast("Failed to fetch diff",
                        "Failed to fetch GitHub PR details", "destructive")>>
    /\ inflight = <<>> /\ ~isLoading

\* C5 as stated: a second handleFetchDiff can be triggered while one is in
\* flight (no guard stands in its way).
C5_SecondFetchCanStart ==
    inflight # <<>> => LoadButtonEnabled

\* C5 amended: the Load button is disabled while isLoading is true, so a
\* second handleFetchDiff cannot be triggered while one is in flight: at
\* most one call is in flight at any time, and the state left by a fetch is
\* that of the only call in flight.
C5_AtMostOneInFlight ==
    /\ Len(inflight) <= 1
    /\ inflight # <<>> => (isLoading /\ ~LoadButtonEnabled)

\* C5 witness: a fetch is in flight while the URL input holds another
\* supported URL
C5_Witness ==
    /\ Len(inflight) = 1
    /\ inflight[1].parsed.platform = "github"
    /\ inflight[1].meta = "ok" /\ inflight[1].files = "pending"
    /\ mrUrl = GitlabUrl

\* the first entry of files with a non-empty patch, NoFile when none has
FirstWithPatch(files) ==
    LET with == {k \in 1..Len(files) : Truthy(files[k].patch)}
    IN  IF with = {} THEN NoFile
        ELSE files[CHOOSE k \in with : \A j \in with : k <= j]

\* C7: after a successful fetch the selected file is the first entry of
\* the file list with a non-empty patch (also when that is not the entry
\* at index 0), and no file is selected only when no entry has one.
C7_FirstWithPatchSelected ==
    [][\A i \in 1..Len(inflight) :
          FetchSucceeds(i) => selectedFile' = FirstWithPatch(filesChanged')]_vars

\* C10: in every state the layout of the displayed diff is that of the
\* current view-mode flag (side-by-side for 'side-by-side', line-by-line
\* for 'unified').
C10_LayoutMatchesViewMode ==
    diffHtml # NoHtml => diffHtml.outputFormat = OutputFormat(viewMode)

\* C11 as stated: a diff that is displayed is the rendering of the patch of
\* the file that is selected.
C11_DiffIsOfSelectedFile ==
    diffHtml # NoHtml =>
        /\ selectedFile # NoFile
        /\ Truthy(selectedFile.patch)
        /\ diffHtml.filename = selectedFile.filename
        /\ diffHtml.patch = selectedFile.patch.text

\* the response of a successful fetch lists no changed file
ZeroFiles(r) ==
    \/ r.platform = "github" /\ r.filesBody = JsonArray(<<>>)
    \/ /\ r.platform = "gitlab"
       /\ r.filesBody.kind = "object"
       /\ \/ ~r.filesBody.value.changes.defined
          \/ r.filesBody.value.changes.items = <<>>

\* C12: when a fetch succeeds with a response that lists no changed file,
\* the file list is empty, no file is selected and no diff is displayed.
C12_ZeroFilesGivesEmptyDisplay ==
    [][\A i \in 1..Len(inflight) :
          (FetchSucceeds(i) /\ ZeroFiles(lastResponse')) =>
              /\ filesChanged' = <<>>
              /\ selectedFile' = NoFile
              /\ diffHtml' = NoHtml]_vars

\* C12 witness: a GitLab fetch whose body has no changes array has succeeded
C12_Witness ==
    /\ lastResponse.platform = "gitlab"
    /\ lastResponse.filesBody.kind = "object"
    /\ ~lastResponse.filesBody.value.changes.defined
    /\ Len(toasts) = 1 /\ SuccessToast(toasts[1])
    /\ filesChanged = <<>>
    /\ mrTitle = <<"T3">>

\* the responses r did not give the adapter two readable bodies
ResponseFailed(r) ==
    \/ r.meta # "ok"
    \/ r.files # "ok"
    \/ r.metaBody = Unparsable
    \/ r.filesBody = Unparsable

\* C13: a click on Load with an empty or an unrecognized URL shows one
\* destructive notice and starts nothing; a call whose request was
\* rejected, answered with a non-success status or with an unreadable body
\* returns with the destructive notice 'Failed to fetch diff'; and every
\* call that returns leaves isLoading false.
C13_FailuresAreReported ==
    [][/\ (handleFetchDiff /\ (mrUrl = <<>> \/ parseMRUrl(mrUrl) = Null)) =>
              /\ Len(toasts') = 1
              /\ toasts'[1].variant = "destructive"
              /\ UNCHANGED <<isLoading, inflight>>
       /\ \A i \in 1..Len(inflight) :
              FetchReturns(i) =>
                  /\ ~isLoading'
                  /\ ResponseFailed(lastResponse') =>
                        /\ FetchFails(i)
                        /\ UNCHANGED <<filesChanged, selectedFile, diffHtml>>]_vars

\* C13 witness: a call whose response body was not JSON has returned with
\* the failure notice and isLoading is false
C13_Witness ==
    /\ lastResponse # NoResponse
    /\ lastResponse.metaBody = Unparsable
    /\ toasts = <<Toast("Failed to fetch diff", "Unexpected token in JSON",
                        "destructive")>>
    /\ inflight = <<>>
    /\ ~isLoading

\* the value of header name among headers, Undefined when it is not sent
HeaderValue(headers, name) ==
    IF \E h \in headers : h[1] = name
    THEN Str((CHOOSE h \in headers : h[1] = name)[2])
    ELSE Undefined

\* token occurs in a header of request q
Carries(q, token) ==
    \E h \in q.headers : \E a \in 0..Len(h[2]) :
        SubSeq(h[2], a + 1, Len(h[2])) = token

\* C14: the two requests of a GitHub fetch carry 'Authorization: Bearer
\* <githubToken>' when githubToken is not empty and no Authorization header
\* when it is; the two requests of a GitLab fetch carry 'PRIVATE-TOKEN:
\* <gitlabToken>' when gitlabToken is not empty and no such header when it
\* is; no request to GitLab carries the GitHub token and none to GitHub the
\* GitLab token.
C14_TokenSentOnlyToItsPlatform ==
    \A i \in 1..Len(inflight) : \A q \in {inflight[i].requests.meta,
                                           inflight[i].requests.files} :
        /\ inflight[i].parsed.platform = "github" =>
              /\ q.host = "api.github.com"
              /\ HeaderValue(q.headers, "Authorization") =
                    IF githubToken # <<>> THEN Str(<<"Bearer ">> \o githubToken)
                                          ELSE Undefined
              /\ gitlabToken # <<>> => ~Carries(q, gitlabToken)
        /\ inflight[i].parsed.platform = "gitlab" =>
              /\ q.host = "gitlab.com"
              /\ HeaderValue(q.headers, "PRIVATE-TOKEN") =
                    IF gitlabToken # <<>> THEN Str(gitlabToken) ELSE Undefined
              /\ githubToken # <<>> => ~Carries(q, githubToken)

\* C14 witness: a GitHub fetch is in flight while both tokens are stored,
\* and its requests carry the GitHub token
C14_Witness ==
    /\ githubToken # <<>> /\ gitlabToken # <<>>
    /\ Len(inflight) = 1
    /\ inflight[1].parsed.platform = "github"
    /\ Carries(inflight[1].requests.meta, githubToken)
    /\ Carries(inflight[1].requests.files, githubToken)

\* C16: when a GitHub fetch succeeds, the file list has one FileChange for
\* each entry of the file array of the response, in the order of the array,
\* with the entry's filename, status, additions, deletions and patch, and
\* nothing else.
C16_GitHubListMirrorsResponse ==
    [][\A i \in 1..Len(inflight) :
          (FetchSucceeds(i) /\ lastResponse'.platform = "github") =>
              LET filesData == lastResponse'.filesBody.value
              IN  /\ Len(filesChanged') = Len(filesData)
                  /\ \A k \in 1..Len(filesData) :
                        /\ filesChanged'[k].filename = filesData[k].filename
                        /\ filesChanged'[k].status = filesData[k].status
                        /\ filesChanged'[k].additions = filesData[k].additions
                        /\ filesChanged'[k].deletions = filesData[k].deletions
                        /\ filesChanged'[k].patch = filesData[k].patch]_vars

\* C16 witness: a GitHub fetch has returned a list of two files
C16_Witness ==
    /\ lastResponse.platform = "github"
    /\ lastResponse.filesBody.kind = "array"
    /\ Len(lastResponse.filesBody.value) = 2
    /\ lastResponse.filesBody.value[1].filename = Str(<<"c.ts">>)
    /\ Len(filesChanged) = 2
    /\ filesChanged[1].deletions = 1
    /\ \E k \in 1..Len(toasts) : SuccessToast(toasts[k])

\* the file list an adapter builds from the responses r
NormalizedFiles(r) ==
    IF r.platform = "github"
    THEN [k \in 1..Len(r.filesBody.value) |-> GitHubFileChange(r.filesBody.value[k])]
    ELSE LET changes == IF r.filesBody.value.changes.defined
                        THEN r.filesBody.value.changes.items ELSE <<>>
         IN  [k \in 1..Len(changes) |-> GitLabFileChange(changes[k])]

\* the author an adapter reads from the responses r
NormalizedAuthor(r) ==
    LET name == IF r.platform = "github" THEN r.metaBody.value.login
                                         ELSE r.metaBody.value.username
    IN  IF name.defined /\ name.text # <<>> THEN name.text ELSE <<"Unknown">>

\* C17: the title, the author, the file list and the selected file that a
\* successful fetch leaves are determined by the two responses alone: two
\* fetches with the same responses leave the same four values, whatever was
\* displayed before.
C17_ResultDependsOnResponsesOnly ==
    [][\A i \in 1..Len(inflight) :
          FetchSucceeds(i) =>
              LET r == lastResponse'
                  files == NormalizedFiles(r)
              IN  /\ mrTitle' = r.metaBody.value.title
                  /\ mrAuthor' = NormalizedAuthor(r)
                  /\ filesChanged' = files
                  /\ selectedFile' =
                        IF Len(files) > 0 /\ Truthy(files[1].patch)
                        THEN files[1] ELSE NoFile]_vars

\* C17 witness: a fetch has succeeded with a response of one file without
\* patch, started while a list of two files was displayed, and no file is
\* selected
C17_Witness ==
    /\ lastResponse.platform = "github"
    /\ lastResponse.filesBody.kind = "array"
    /\ Len(lastResponse.filesBody.value) = 1
    /\ ~Truthy(lastResponse.filesBody.value[1].patch)
    /\ toasts = <<Toast("Diff loaded successfully",
                        "Loaded changes for 2 files", "default")>>
    /\ Len(filesChanged) = 1
    /\ selectedFile = NoFile

\* C24 as stated: the success notice of a fetch reports the number of files
\* of the list that the fetch has just loaded.
C24_NoticeCountsLoadedFiles ==
    [][\A i \in 1..Len(inflight) :
          FetchSucceeds(i) =>
              toasts'[Len(toasts')].description =
                  "Loaded changes for " \o ToString(Len(filesChanged')) \o " files"]_vars

\* C25: a click on Load with an empty URL, or with a URL that parseMRUrl
\* does not recognize, shows one destructive notice, leaves isLoading, the
\* file list, the selected file, the rendered diff, the title and the
\* author as they are, and issues no request.
C25_BadUrlChangesNothing ==
    [][(handleFetchDiff /\ (mrUrl = <<>> \/ parseMRUrl(mrUrl) = Null)) =>
          /\ Len(toasts') = 1
          /\ toasts'[1].variant = "destructive"
          /\ toasts'[1].title = IF mrUrl = <<>> THEN "MR URL required"
                                               ELSE "Invalid URL"
          /\ UNCHANGED <<isLoading, filesChanged, selectedFile, diffHtml,
                         mrTitle, mrAuthor, inflight>>]_vars

\* C25 witness: the notice of an unrecognized URL is shown over the list,
\* the selection and the diff of an earlier fetch
C25_Witness ==
    /\ mrUrl = BitbucketUrl
    /\ toasts = <<Toast("Invalid URL",
                        "Please enter a valid GitHub or GitLab MR URL",
                        "destructive")>>
    /\ Len(filesChanged) = 2
    /\ selectedFile # NoFile
    /\ diffHtml # NoHtml
    /\ mrTitle = <<"T1">>
    /\ inflight = <<>>
    /\ ~isLoading

----------------------------------------------------------------------------
(* The edge function send-telegram-notification.  The message is a         *)
(* sequence of tokens: a character of a payload string is a token of its   *)
(* own, a piece of a template literal is one token, an emoji is a token    *)
(* that spells its name.                                                   *)

\* issues.slice(0, 5) and message.substring(0, 80)
TopIssuesLimit == 5
MessageLimit == 80

\* the longest issue list of a payload
MaxIssues == 7

getStatusEmoji(status) ==
    IF status = <<"p", "a", "s", "s", "e", "d">> THEN ":check_mark:"
    ELSE IF status = <<"w", "a", "r", "n", "i", "n", "g", "s">> THEN ":warning:"
    ELSE IF status = <<"f", "a", "i", "l", "e", "d">> THEN ":cross_mark:"
    ELSE ":clipboard:"

getSeverityEmoji(severity) ==
    IF severity = "error" THEN ":red_circle:"
    ELSE IF severity = "warning" THEN ":yellow_circle:"
    ELSE IF severity = "info" THEN ":blue_circle:"
    ELSE ":white_circle:"

\* text.replace(/c/g, by)
RECURSIVE ReplaceAll(_, _, _)
ReplaceAll(text, c, by) ==
    IF text = <<>> THEN <<>>
    ELSE (IF Head(text) = c THEN by ELSE <<Head(text)>>)
             \o ReplaceAll(Tail(text), c, by)

escapeHtml(text) ==
    ReplaceAll(
        ReplaceAll(
            ReplaceAll(
                ReplaceAll(text, "&", <<"&", "a", "m", "p", ";">>),
                "<", <<"&", "l", "t", ";">>),
            ">", <<"&", "g", "t", ";">>),
        "\"", <<"&", "q", "u", "o", "t", ";">>)

\* toUpperCase, for the lower-case letters that start a status
UpperCase(c) ==
    IF c = "p" THEN "P" ELSE IF c = "w" THEN "W" ELSE IF c = "f" THEN "F" ELSE c

\* all the issues instead of issues.slice(0, 5)
TopIssues_All(issues) == issues

\* issues.slice(0, 5)
TopIssues(issues) ==
    SubSeq(issues, 1, IF Len(issues) < TopIssuesLimit THEN Len(issues)
                                                     ELSE TopIssuesLimit)

\* the body of topIssues.forEach from the entry at position index on;
\* positions count from 1, so that index is the index + 1 of the code
RECURSIVE IssueLines(_, _)
IssueLines(topIssues, index) ==
    IF index > Len(topIssues) THEN <<>>
    ELSE LET issue == topIssues[index]
             emoji == getSeverityEmoji(issue.severity)
             shortMessage ==
                 IF Len(issue.message) > MessageLimit
                 THEN SubSeq(issue.message, 1, MessageLimit) \o <<".", ".", ".">>
                 ELSE issue.message
         IN  <<ToString(index), ". ", emoji, " <code>">>
                 \o escapeHtml(issue.file)
                 \o <<":", ToString(issue.line), "</code>\n">>
                 \o <<"   ">> \o escapeHtml(shortMessage) \o <<"\n">>
                 \o IssueLines(topIssues, index + 1)

\* the number of issues of a severity
SeverityCount(issues, severity) ==
    Cardinality({k \in 1..Len(issues) : issues[k].severity = severity})

buildTelegramMessage(data) ==
    LET statusEmoji == getStatusEmoji(data.status)
        statusText == <<UpperCase(Head(data.status))>> \o Tail(data.status)
        errorCount == SeverityCount(data.issues, "error")
        warningCount == SeverityCount(data.issues, "warning")
        infoCount == SeverityCount(data.issues, "info")
    IN  <<statusEmoji, " <b>Code Review Complete</b>\n\n">>
        \o <<":memo: <b>MR:</b> ">> \o escapeHtml(data.mrTitle) \o <<"\n">>
        \o <<":bust: <b>Author:</b> ">> \o escapeHtml(data.author) \o <<"\n">>
        \o <<":chart: <b>Status:</b> ">> \o statusText \o <<"\n\n">>
        \o <<":folder: <b>Stats:</b>\n">>
        \o <<"* Files Changed: ", ToString(data.filesChanged), "\n">>
        \o <<"* Lines Added: +", ToString(data.linesAdded), "\n">>
        \o <<"* Lines Removed: -", ToString(data.linesRemoved), "\n">>
        \o <<"* Review Time: ">> \o escapeHtml(data.reviewTime) \o <<"\n\n">>
        \o (IF Len(data.issues) > 0
            THEN <<":magnifier: <b>Issues Found:</b>\n">>
                 \o <<"* :red_circle: Errors: ", ToString(errorCount), "\n">>
                 \o <<"* :yellow_circle: Warnings: ", ToString(warningCount), "\n">>
                 \o <<"* :blue_circle: Info: ", ToString(infoCount), "\n\n">>
                 \o <<":clipboard: <b>Top Issues:</b>\n">>
                 \o IssueLines(TopIssues(data.issues), 1)
                 \o (IF Len(data.issues) > TopIssuesLimit
                     THEN <<"\n<i>... and ",
                            ToString(Len(data.issues) - TopIssuesLimit),
                            " more issues</i>\n">>
                     ELSE <<>>)
            ELSE <<>>)
        \o <<"\n:bulb: <b>Summary:</b>\n">> \o escapeHtml(data.summary) \o <<"\n\n">>
        \o <<":link: <a href=\"">> \o escapeHtml(data.mrUrl)
        \o <<"\">View Merge Request</a>">>

\* what Deno.env.get gives for a secret: nothing, '' or a value
BotTokens == {Undefined, Str(<<>>), Str(<<"123:abc">>)}
ChatIds == {Undefined, Str(<<>>), Str(<<"-1001">>)}

\* issues of a payload: a short one, and one whose file has characters of
\* HTML and whose message is longer than MessageLimit
LongMessage == [k \in 1..(MessageLimit + 1) |-> IF k = MessageLimit THEN "&" ELSE "m"]
PayloadIssues ==
    { [file |-> <<"a", ".", "t", "s">>, line |-> 10, severity |-> "error",
       message |-> <<"b", "a", "d">>],
      [file |-> <<"b", "<", ">">>, line |-> 20, severity |-> "warning",
       message |-> LongMessage] }

\* the payloads of a request
Payloads ==
    [ mrTitle : {<<"a", "&", "<", "b", ">">>},
      mrUrl : {<<"h", "\"">>},
      author : {<<"a", "l">>},
      filesChanged : {3}, linesAdded : {10}, linesRemoved : {2},
      reviewTime : {<<"2", "s">>},
      status : { <<"p", "a", "s", "s", "e", "d">>,
                 <<"w", "a", "r", "n", "i", "n", "g", "s">>,
                 <<"f", "a", "i", "l", "e", "d">>,
                 <<"<", "b", ">">> },
      issues : UNION {[1..n -> PayloadIssues] : n \in 0..MaxIssues},
      summary : {<<"o", "k">>} ]

\* a body of a request: no JSON, an object without the fields of a
\* payload, or a payload
Incomplete == [kind |-> "incomplete"]
RequestBodies == {Unparsable, Incomplete} \cup {JsonObject(d) : d \in Payloads}

\* the requests the function is called with
Requests == [method : {"OPTIONS", "POST"}, body : RequestBodies]

\* the description of a reply of the Telegram API, in words
ChatNotFound == <<"chat", "not", "found">>
Descriptions ==
    { Undefined, Str(<<"Bad", "Request:">> \o ChatNotFound),
      Str(<<"Forbidden:", "bot", "was", "blocked">>) }

\* the replies of the Telegram API: the fetch rejects, or a response with a
\* status that is ok or not and a body that is JSON or not
TelegramReplies ==
    { [kind |-> "rejected"] }
        \cup [kind : {"response"}, ok : BOOLEAN, body : {Unparsable}]
        \cup { [kind |-> "response", ok |-> TRUE,
                body |-> JsonObject([error_code |-> Undefined,
                                     description |-> Undefined])] }
        \cup { [kind |-> "response", ok |-> FALSE,
                body |-> JsonObject([error_code |-> c, description |-> d])] :
                 c \in {Undefined, Str(<<"400">>), Str(<<"401">>), Str(<<"403">>)},
                 d \in Descriptions }

\* description.includes(words)
Includes(text, words) ==
    \E a \in 0..(Len(text) - Len(words)) :
        SubSeq(text, a + 1, a + Len(words)) = words

\* a secret counts as set when it is defined, even when it is ''
SecretMissing_UnsetOnly(secret) == ~secret.defined

\* !SECRET || SECRET === ""
SecretMissing(secret) == ~Truthy(secret) \/ secret = Str(<<>>)

\* the Response objects of the function
Answer(status, success, error) ==
    [status |-> status, success |-> success, error |-> error]

\* a request arrives at the function; the handler keeps nothing from one
\* request to the next, so one request stands for each of them
Serve(req) ==
    /\ tgPc = "idle"
    /\ tgRequest' = req
    /\ tgPc' = "serving"
    /\ tgBodyRead' = FALSE
    /\ tgSent' = <<>>
    /\ tgReply' = NoReply
    /\ tgResponse' = NoAnswer
    /\ UNCHANGED tgEnv

\* the handler from its start to the return of its Response or to the
\* fetch of the Telegram API
HandleRequest ==
    LET TELEGRAM_BOT_TOKEN == tgEnv.TELEGRAM_BOT_TOKEN
        TELEGRAM_CHAT_ID == tgEnv.TELEGRAM_CHAT_ID
        body == tgRequest.body
        Return(answer, read) ==
            /\ tgResponse' = answer
            /\ tgBodyRead' = read
            /\ tgPc' = "done"
            /\ UNCHANGED <<tgSent>>
    IN  /\ tgPc = "serving"
        /\ IF tgRequest.method = "OPTIONS"
           THEN Return(Answer(200, FALSE, <<>>), FALSE)
           ELSE IF SecretMissing(TELEGRAM_BOT_TOKEN)
           THEN Return(Answer(500, FALSE,
                    <<"TELEGRAM_BOT_TOKEN", "is not configured in Supabase secrets">>),
                    FALSE)
           ELSE IF SecretMissing(TELEGRAM_CHAT_ID)
           THEN Return(Answer(500, FALSE,
                    <<"TELEGRAM_CHAT_ID", "is not configured in Supabase secrets">>),
                    FALSE)
           ELSE IF body = Unparsable
           THEN Return(Answer(500, FALSE, <<"Unexpected token in JSON">>), TRUE)
           ELSE IF body = Incomplete
           THEN Return(Answer(500, FALSE,
                    <<"Failed to build message: ",
                      "Cannot read properties of undefined">>), TRUE)
           ELSE /\ tgSent' = <<[url |-> <<"https://api.telegram.org/bot">>
                                          \o TELEGRAM_BOT_TOKEN.text
                                          \o <<"/sendMessage">>,
                                chat_id |-> TELEGRAM_CHAT_ID.text,
                                text |-> buildTelegramMessage(body.value),
                                parse_mode |-> "HTML"]>>
                /\ tgBodyRead' = TRUE
                /\ tgPc' = "awaiting"
                /\ UNCHANGED tgResponse
        /\ UNCHANGED <<tgEnv, tgRequest, tgReply>>

\* the handler from the reply of the Telegram API to its Response
HandleReply(reply) ==
    LET TELEGRAM_CHAT_ID == tgEnv.TELEGRAM_CHAT_ID
        result == reply.body.value
        codeText == IF result.error_code.defined THEN result.error_code.text
                                                 ELSE <<"undefined">>
        errorMsg == IF Truthy(result.description) THEN result.description.text
                    ELSE IF Truthy(result.error_code) THEN result.error_code.text
                    ELSE <<"Unknown error">>
    IN  /\ tgPc = "awaiting"
        /\ tgReply' = reply
        /\ tgPc' = "done"
        /\ tgResponse' =
              IF reply.kind = "rejected"
              THEN Answer(500, FALSE, <<"error sending request">>)
              ELSE IF reply.body = Unparsable
              THEN Answer(500, FALSE, <<"Unexpected token in JSON">>)
              ELSE IF ~reply.ok
              THEN IF /\ result.error_code = Str(<<"400">>)
                      /\ result.description.defined
                      /\ Includes(result.description.text, ChatNotFound)
                   THEN Answer(500, FALSE,
                            <<"Invalid TELEGRAM_CHAT_ID.",
                              " The bot cannot access chat: ">>
                            \o TELEGRAM_CHAT_ID.text
                            \o <<". Make sure to start the bot first by sending /start">>)
                   ELSE IF result.error_code = Str(<<"401">>)
                   THEN Answer(500, FALSE,
                            <<"Invalid TELEGRAM_BOT_TOKEN.",
                              " Please check your bot token.">>)
                   ELSE Answer(500, FALSE,
                            <<"Telegram API error (">> \o codeText \o <<"): ">>
                            \o errorMsg)
              ELSE Answer(200, TRUE, <<>>)
        /\ UNCHANGED <<tgEnv, tgRequest, tgBodyRead, tgSent>>

InitTelegram ==
    /\ tgEnv \in [TELEGRAM_BOT_TOKEN : BotTokens, TELEGRAM_CHAT_ID : ChatIds]
    /\ tgRequest = NoRequest
    /\ tgPc = "idle"
    /\ tgBodyRead = FALSE
    /\ tgSent = <<>>
    /\ tgReply = NoReply
    /\ tgResponse = NoAnswer
    /\ IdleLLM
    /\ IdleSettings
    /\ IdleReview
    /\ IdleParse
    /\ IdleGitLab
    /\ InitCodeDiff
    /\ NoTokens

NextTelegram ==
    \/ /\ \E req \in Requests : Serve(req)
       /\ UNCHANGED <<parseVars, gitlabVars, uiVars, llmVars, stVars, rvVars>>
    \/ /\ HandleRequest
       /\ UNCHANGED <<parseVars, gitlabVars, uiVars, llmVars, stVars, rvVars>>
    \/ /\ \E reply \in TelegramReplies : HandleReply(reply)
       /\ UNCHANGED <<parseVars, gitlabVars, uiVars, llmVars, stVars, rvVars>>

SpecTelegram == InitTelegram /\ [][NextTelegram]_vars

----------------------------------------------------------------------------
(* Properties of send-telegram-notification                                *)

\* the pairs of neighbouring tokens of msg, in order
TokenPairs(msg) == [p \in 1..(Len(msg) - 1) |-> <<msg[p], msg[p + 1]>>]

\* the tokens that stand just before a token t, in order
TokensBefore(msg, t) ==
    LET hits == SelectSeq(TokenPairs(msg), LAMBDA x : x[2] = t)
    IN  [j \in 1..Len(hits) |-> hits[j][1]]

\* the tokens that stand just after a token t, in order
TokensAfter(msg, t) ==
    LET hits == SelectSeq(TokenPairs(msg), LAMBDA x : x[1] = t)
    IN  [j \in 1..Len(hits) |-> hits[j][2]]

HasToken(msg, t) == \E p \in 1..Len(msg) : msg[p] = t

\* C18: the message sent for a payload of n issues lists the first
\* min(n, 5) issues, in the order of the payload and numbered from 1; it
\* has a line '... and n - 5 more issues' when n > 5 and no such line when
\* n <= 5; it has no issues section when n = 0.
C18_FirstFiveIssuesListed ==
    tgSent # <<>> =>
        LET msg == tgSent[1].text
            issues == tgRequest.body.value.issues
            n == Len(issues)
            k == IF n < 5 THEN n ELSE 5
        IN  /\ TokensBefore(msg, ". ") = [j \in 1..k |-> ToString(j)]
            /\ TokensAfter(msg, ". ") =
                  [j \in 1..k |-> getSeverityEmoji(issues[j].severity)]
            /\ TokensBefore(msg, "</code>\n") =
                  [j \in 1..k |-> ToString(issues[j].line)]
            /\ n > 5 => TokensAfter(msg, "\n<i>... and ") = <<ToString(n - 5)>>
            /\ n > 5 => TokensBefore(msg, " more issues</i>\n") = <<ToString(n - 5)>>
            /\ n <= 5 => /\ ~HasToken(msg, "\n<i>... and ")
                         /\ ~HasToken(msg, " more issues</i>\n")
            /\ n = 0 => /\ ~HasToken(msg, ":magnifier: <b>Issues Found:</b>\n")
                        /\ ~HasToken(msg, ":clipboard: <b>Top Issues:</b>\n")
            /\ n > 0 => /\ HasToken(msg, ":magnifier: <b>Issues Found:</b>\n")
                        /\ HasToken(msg, ":clipboard: <b>Top Issues:</b>\n")

\* C18 witness: the message of a payload of seven issues has been sent; it
\* lists five of them and says that two more remain
C18_Witness ==
    /\ tgSent # <<>>
    /\ Len(tgRequest.body.value.issues) = 7
    /\ tgRequest.body.value.issues[1].line = 20
    /\ tgRequest.body.value.issues[2].line = 10
    /\ TokensBefore(tgSent[1].text, ". ") = <<"1", "2", "3", "4", "5">>
    /\ TokensAfter(tgSent[1].text, "\n<i>... and ") = <<"2">>

\* a secret that is unset or empty
UnsetOrEmpty(secret) == ~secret.defined \/ secret.text = <<>>

\* the answer has status 500 and its error names a secret that is missing
NamesMissingSecret(answer) ==
    /\ answer.status = 500
    /\ Len(answer.error) > 0
    /\ \/ answer.error[1] = "TELEGRAM_BOT_TOKEN"
             /\ UnsetOrEmpty(tgEnv.TELEGRAM_BOT_TOKEN)
       \/ answer.error[1] = "TELEGRAM_CHAT_ID"
             /\ UnsetOrEmpty(tgEnv.TELEGRAM_CHAT_ID)

\* C19 as stated: when TELEGRAM_BOT_TOKEN or TELEGRAM_CHAT_ID is unset or
\* empty, the function answers every request with status 500 and an error
\* naming the missing secret, without reading the body of the request and
\* without a request to the Telegram API.
C19_MissingSecretGives500 ==
    (/\ tgPc = "done"
     /\ \/ UnsetOrEmpty(tgEnv.TELEGRAM_BOT_TOKEN)
        \/ UnsetOrEmpty(tgEnv.TELEGRAM_CHAT_ID)) =>
        /\ NamesMissingSecret(tgResponse)
        /\ ~tgBodyRead
        /\ tgSent = <<>>

\* C19 amended: the same for every request whose method is not OPTIONS; a
\* request of method OPTIONS is answered with status 200 and no body, the
\* secrets not being looked at.
C19_MissingSecretGives500ExceptPreflight ==
    /\ (/\ tgPc = "done"
        /\ tgRequest.method # "OPTIONS"
        /\ \/ UnsetOrEmpty(tgEnv.TELEGRAM_BOT_TOKEN)
           \/ UnsetOrEmpty(tgEnv.TELEGRAM_CHAT_ID)) =>
           /\ NamesMissingSecret(tgResponse)
           /\ UnsetOrEmpty(tgEnv.TELEGRAM_BOT_TOKEN) =>
                 tgResponse.error[1] = "TELEGRAM_BOT_TOKEN"
           /\ ~tgBodyRead
           /\ tgSent = <<>>
    /\ (tgPc = "done" /\ tgRequest.method = "OPTIONS") =>
           /\ tgResponse = Answer(200, FALSE, <<>>)
           /\ ~tgBodyRead
           /\ tgSent = <<>>

\* C19 witness: a POST request has been answered while TELEGRAM_CHAT_ID is
\* empty and TELEGRAM_BOT_TOKEN is set
C19_Witness ==
    /\ tgPc = "done"
    /\ tgRequest.method = "POST"
    /\ tgRequest.body.kind = "object"
    /\ tgEnv.TELEGRAM_BOT_TOKEN = Str(<<"123:abc">>)
    /\ tgEnv.TELEGRAM_CHAT_ID = Str(<<>>)
    /\ tgResponse.status = 500
    /\ tgResponse.error[1] = "TELEGRAM_CHAT_ID"
    /\ ~tgBodyRead

\* the diagnostic the claim names for a reply that is not a success
ClaimedDiagnostic(reply) ==
    IF reply.body.kind = "object" /\ reply.body.value.error_code = Str(<<"401">>)
    THEN "Invalid TELEGRAM_BOT_TOKEN."
    ELSE IF /\ reply.body.kind = "object"
            /\ reply.body.value.error_code = Str(<<"400">>)
            /\ reply.body.value.description.defined
            /\ Includes(reply.body.value.description.text, ChatNotFound)
    THEN "Invalid TELEGRAM_CHAT_ID."
    ELSE "Telegram API error ("

\* C20 as stated: a reply of the Telegram API that is not a success is
\* answered with status 500 and the diagnostic of its case (error_code 401,
\* error_code 400 with 'chat not found', any other failure), and status 200
\* with success = true is answered only after a successful reply.
C20_FailureDiagnostics ==
    (tgPc = "done" /\ tgReply.kind = "response") =>
        /\ ~tgReply.ok =>
              /\ tgResponse.status = 500
              /\ tgResponse.error[1] = ClaimedDiagnostic(tgReply)
        /\ (tgResponse.status = 200 /\ tgResponse.success) => tgReply.ok

\* the entities of escapeHtml, without their first character
EntityTails ==
    { <<"a", "m", "p", ";">>, <<"l", "t", ";">>, <<"g", "t", ";">>,
      <<"q", "u", "o", "t", ";">> }

\* C26 as stated: no character of HTML of a string of the payload reaches
\* the message: the message has no '<', '>' or '"' of the payload, and each
\* '&' in it starts an entity.
C26_PayloadIsEscaped ==
    tgSent # <<>> =>
        LET msg == tgSent[1].text
        IN  \A p \in 1..Len(msg) :
                /\ msg[p] \notin {"<", ">", "\""}
                /\ msg[p] = "&" =>
                      \E e \in EntityTails :
                          /\ p + Len(e) <= Len(msg)
                          /\ SubSeq(msg, p + 1, p + Len(e)) = e

----------------------------------------------------------------------------
(* LLMConfiguration: the form of the LLM providers of a project.  A        *)
(* handler reads the config of the render it was created in; of two        *)
(* setConfig calls of one handler the second decides the next render.      *)

\* the longest list of providers the form is taken to
MaxProviders == 2

\* the models of AVAILABLE_PROVIDERS
AVAILABLE_PROVIDERS ==
    [ gemini    |-> <<"gemini-1.5-pro", "gemini-1.5-flash", "gemini-2.0-flash">>,
      openai    |-> <<"gpt-4o", "gpt-4-turbo", "gpt-4", "gpt-3.5-turbo">>,
      anthropic |-> <<"claude-3-opus", "claude-3-sonnet", "claude-3-haiku">> ]

\* the configurations the backend answers with
ServerProviders ==
    { <<>>,
      <<[provider |-> "gemini", model |-> "gemini-1.5-flash", api_key |-> "k1",
         enabled |-> TRUE]>>,
      <<[provider |-> "openai", model |-> "gpt-4o", api_key |-> "k2",
         enabled |-> FALSE],
        [provider |-> "gemini", model |-> "gemini-1.5-flash", api_key |-> "k1",
         enabled |-> TRUE]>> }
ServerConfigs ==
    { [project_id |-> "default-project", llm_providers |-> l,
       default_provider |-> "gemini"] : l \in ServerProviders }

\* how a request to the backend ends: the fetch rejects, the status is not
\* ok, the body is not JSON, or the body is a configuration
BackendOutcomes ==
    { [kind |-> "rejected"], [kind |-> "http_error"], [kind |-> "unparsable"] }
        \cup { [kind |-> "ok", data |-> c] : c \in ServerConfigs }

\* the message of the error that the try block throws for a failed outcome
BackendError(outcome, notOk) ==
    IF outcome.kind = "rejected" THEN "Failed to fetch"
    ELSE IF outcome.kind = "http_error" THEN notOk
    ELSE "Unexpected token in JSON"

\* the form is rendered: not the spinner, not the Retry card
FormRendered == ~llmIsLoading /\ llmConfig # NoConfig

\* a click on Retry or on Reset, and the mount effect
loadConfiguration ==
    /\ ~llmIsLoading
    /\ llmIsLoading' = TRUE
    /\ llmLoads' = llmLoads + 1
    /\ UNCHANGED <<llmConfig, llmIsSaving, llmSaves, llmToast>>

\* the catch block of loadConfiguration, writing null to config
loadFailed_ClearsConfig(message) ==
    /\ llmToast' = Toast("Failed to load configuration", message, "destructive")
    /\ llmConfig' = NoConfig

\* the catch block of loadConfiguration
loadFailed(message) ==
    /\ llmToast' = Toast("Failed to load configuration", message, "destructive")
    /\ UNCHANGED llmConfig

\* loadConfiguration from the answer of the backend on
loadConfigurationReturns(outcome) ==
    /\ llmLoads > 0
    /\ IF outcome.kind = "ok"
       THEN /\ llmConfig' = outcome.data
            /\ UNCHANGED llmToast
       ELSE loadFailed(BackendError(outcome, "Failed to load configuration"))
    /\ llmIsLoading' = FALSE
    /\ llmLoads' = llmLoads - 1
    /\ UNCHANGED <<llmIsSaving, llmSaves>>

\* a click on Save Configuration (disabled={isSaving})
saveConfiguration ==
    /\ FormRendered
    /\ ~llmIsSaving
    /\ IF llmConfig = NoConfig
       THEN UNCHANGED <<llmIsSaving, llmSaves>>
       ELSE /\ llmIsSaving' = TRUE
            /\ llmSaves' = llmSaves + 1
    /\ UNCHANGED <<llmConfig, llmIsLoading, llmLoads, llmToast>>

\* saveConfiguration from the answer of the backend on
saveConfigurationReturns(outcome) ==
    /\ llmSaves > 0
    /\ IF outcome.kind = "ok"
       THEN /\ llmConfig' = outcome.data
            /\ llmToast' = Toast("Configuration saved",
                                 "Your LLM settings have been updated successfully.",
                                 "default")
       ELSE /\ llmToast' = Toast("Failed to save configuration",
                                 BackendError(outcome, "Failed to save configuration"),
                                 "destructive")
            /\ UNCHANGED llmConfig
    /\ llmIsSaving' = FALSE
    /\ llmSaves' = llmSaves - 1
    /\ UNCHANGED <<llmIsLoading, llmLoads>>

\* the entry addProvider appends
NewProvider ==
    [provider |-> "gemini", model |-> "gemini-1.5-pro", api_key |-> "",
     enabled |-> TRUE]

\* a click on Add Another Provider
addProvider ==
    /\ FormRendered
    /\ Len(llmConfig.llm_providers) < MaxProviders
    /\ llmConfig' = [llmConfig EXCEPT !.llm_providers = Append(@, NewProvider)]
    /\ UNCHANGED <<llmIsLoading, llmIsSaving, llmLoads, llmSaves, llmToast>>

\* the remove button never disabled
RemoveButtonEnabled_Always(config) == TRUE

\* the remove button: disabled={config.llm_providers.length === 1}
RemoveButtonEnabled(config) == Len(config.llm_providers) # 1

\* a click on the remove button of the entry at position index (positions
\* count from 1)
removeProvider(index) ==
    /\ FormRendered
    /\ index \in 1..Len(llmConfig.llm_providers)
    /\ RemoveButtonEnabled(llmConfig)
    /\ llmConfig' = [llmConfig EXCEPT !.llm_providers = RemoveAt(@, index)]
    /\ UNCHANGED <<llmIsLoading, llmIsSaving, llmLoads, llmSaves, llmToast>>

\* the config that updateProvider(index, field, value) passes to setConfig,
\* config being the config of the render of the handler
updateProvider(config, index, field, value) ==
    [config EXCEPT !.llm_providers[index] = [@ EXCEPT ![field] = value]]

\* the provider Select of the entry at position index changes to value:
\* updateProvider is called twice, each call with the config of the render
onProviderValueChange(index, value) ==
    LET models == AVAILABLE_PROVIDERS[value]
        first == updateProvider(llmConfig, index, "provider", value)
        second == updateProvider(llmConfig, index, "model", models[1])
    IN  /\ FormRendered
        /\ index \in 1..Len(llmConfig.llm_providers)
        /\ llmConfig' = IF Len(models) > 0 THEN second ELSE first
        /\ UNCHANGED <<llmIsLoading, llmIsSaving, llmLoads, llmSaves, llmToast>>

\* the model Select of the entry at position index changes to one of the
\* models it offers
onModelValueChange(index, value) ==
    /\ FormRendered
    /\ index \in 1..Len(llmConfig.llm_providers)
    /\ \E k \in 1..Len(AVAILABLE_PROVIDERS[llmConfig.llm_providers[index].provider]) :
          value = AVAILABLE_PROVIDERS[llmConfig.llm_providers[index].provider][k]
    /\ llmConfig' = updateProvider(llmConfig, index, "model", value)
    /\ UNCHANGED <<llmIsLoading, llmIsSaving, llmLoads, llmSaves, llmToast>>

\* the Switch of the entry at position index is toggled
onEnabledCheckedChange(index) ==
    /\ FormRendered
    /\ index \in 1..Len(llmConfig.llm_providers)
    /\ llmConfig' = updateProvider(llmConfig, index, "enabled",
                                   ~llmConfig.llm_providers[index].enabled)
    /\ UNCHANGED <<llmIsLoading, llmIsSaving, llmLoads, llmSaves, llmToast>>

\* all the models of AVAILABLE_PROVIDERS
AllModels ==
    UNION { {AVAILABLE_PROVIDERS[k][j] : j \in 1..Len(AVAILABLE_PROVIDERS[k])} :
              k \in DOMAIN AVAILABLE_PROVIDERS }

\* the component after its mount effect has called loadConfiguration
InitLLM ==
    /\ llmConfig = NoConfig
    /\ llmIsLoading = TRUE
    /\ llmIsSaving = FALSE
    /\ llmLoads = 1
    /\ llmSaves = 0
    /\ llmToast = NoToast
    /\ IdleParse
    /\ IdleGitLab
    /\ InitCodeDiff
    /\ NoTokens
    /\ IdleTelegram
    /\ IdleSettings
    /\ IdleReview

NextLLM ==
    \/ /\ loadConfiguration
       /\ UNCHANGED <<parseVars, gitlabVars, uiVars, tgVars, stVars, rvVars>>
    \/ /\ \E outcome \in BackendOutcomes : loadConfigurationReturns(outcome)
       /\ UNCHANGED <<parseVars, gitlabVars, uiVars, tgVars, stVars, rvVars>>
    \/ /\ saveConfiguration
       /\ UNCHANGED <<parseVars, gitlabVars, uiVars, tgVars, stVars, rvVars>>
    \/ /\ \E outcome \in BackendOutcomes : saveConfigurationReturns(outcome)
       /\ UNCHANGED <<parseVars, gitlabVars, uiVars, tgVars, stVars, rvVars>>
    \/ /\ addProvider
       /\ UNCHANGED <<parseVars, gitlabVars, uiVars, tgVars, stVars, rvVars>>
    \/ /\ \E index \in 1..MaxProviders : removeProvider(index)
       /\ UNCHANGED <<parseVars, gitlabVars, uiVars, tgVars, stVars, rvVars>>
    \/ /\ \E index \in 1..MaxProviders, value \in DOMAIN AVAILABLE_PROVIDERS :
            onProviderValueChange(index, value)
       /\ UNCHANGED <<parseVars, gitlabVars, uiVars, tgVars, stVars, rvVars>>
    \/ /\ \E index \in 1..MaxProviders, value \in AllModels :
            onModelValueChange(index, value)
       /\ UNCHANGED <<parseVars, gitlabVars, uiVars, tgVars, stVars, rvVars>>
    \/ /\ \E index \in 1..MaxProviders : onEnabledCheckedChange(index)
       /\ UNCHANGED <<parseVars, gitlabVars, uiVars, tgVars, stVars, rvVars>>

SpecLLM == InitLLM /\ [][NextLLM]_vars

----------------------------------------------------------------------------
(* Properties of LLMConfiguration                                          *)

\* C23 as stated: when the provider Select of the entry at position index
\* changes to value, the entry's provider is value and its model is the
\* first model of value afterwards, and the other entries are as before.
C23_ProviderAndModelUpdated ==
    [][\A index \in 1..MaxProviders, value \in DOMAIN AVAILABLE_PROVIDERS :
          onProviderValueChange(index, value) =>
              LET before == llmConfig.llm_providers
                  after == llmConfig'.llm_providers
              IN  /\ Len(after) = Len(before)
                  /\ after[index].provider = value
                  /\ after[index].model = AVAILABLE_PROVIDERS[value][1]
                  /\ \A j \in 1..Len(before) : j # index => after[j] = before[j]]_vars

\* this step is one of the handlers that edit the list of providers
EditsProviders ==
    \/ addProvider
    \/ \E index \in 1..MaxProviders : removeProvider(index)
    \/ \E index \in 1..MaxProviders, value \in DOMAIN AVAILABLE_PROVIDERS :
          onProviderValueChange(index, value)
    \/ \E index \in 1..MaxProviders, value \in AllModels :
          onModelValueChange(index, value)
    \/ \E index \in 1..MaxProviders : onEnabledCheckedChange(index)

C30_LoadAndSaveOutcomes ==
    [][/\ \A outcome \in BackendOutcomes :
              loadConfigurationReturns(outcome) =>
                  /\ ~llmIsLoading'
                  /\ IF outcome.kind = "ok"
                     THEN llmConfig' = outcome.data
                     ELSE /\ llmConfig' = llmConfig
                          /\ llmToast'.title = "Failed to load configuration"
                          /\ llmToast'.variant = "destructive"
       /\ \A outcome \in BackendOutcomes :
              saveConfigurationReturns(outcome) =>
                  /\ ~llmIsSaving'
                  /\ IF outcome.kind = "ok"
                     THEN llmConfig' = outcome.data
                     ELSE /\ llmConfig' = llmConfig
                          /\ llmToast'.title = "Failed to save configuration"
                          /\ llmToast'.variant = "destructive"
       /\ (saveConfiguration /\ llmConfig = NoConfig) => UNCHANGED llmVars
       /\ llmLoads' = 0 => ~llmIsLoading'
       /\ llmSaves' = 0 => ~llmIsSaving']_vars

\* C30 witness: a Reset has failed over a loaded config, which is kept
C30_Witness ==
    /\ llmConfig \in ServerConfigs
    /\ llmToast = Toast("Failed to load configuration",
                        "Failed to load configuration", "destructive")
    /\ llmLoads = 0
    /\ ~llmIsLoading

----------------------------------------------------------------------------
(* Settings: the two token inputs and their verification.  The code of     *)
(* GitLab and of GitHub is the same but for names and headers; the model   *)
(* has one definition for both, with the platform as parameter.  A token   *)
(* is a string, '' when empty.  The effect that copies the stored tokens   *)
(* to the inputs runs with the render in which a stored token changed.     *)

\* the texts of a token input
TokenTexts == {"", "tokA", "tokB"}

\* how a verification request ends
VerifyOutcomes == {"ok", "ok_unparsable", "http_error", "rejected"}

\* the useEffect on [githubToken, gitlabToken], for the stored tokens
\* stored, the inputs local and the flags verified of before it
InitializeLocalTokens(stored, local, verified) ==
    [local    |-> [p \in Platforms |-> IF stored[p] # "" THEN stored[p] ELSE local[p]],
     verified |-> [p \in Platforms |-> IF stored[p] # "" THEN TRUE ELSE verified[p]]]

\* the onChange of the token input of platform p
onTokenChange(p, text) ==
    /\ stLocal' = [stLocal EXCEPT ![p] = text]
    /\ stVerified' = [stVerified EXCEPT ![p] = FALSE]
    /\ UNCHANGED <<stStored, stVerifying, stPending, stToast>>

\* verifyGitlabToken / verifyGithubToken up to await fetch: a click on the
\* button of platform p (disabled while verifying)
verifyToken(p) ==
    /\ ~stVerifying[p]
    /\ IF stLocal[p] = ""
       THEN /\ stToast' = Toast("Token required",
                                "Please enter your " \o p \o " token first.",
                                "destructive")
            /\ UNCHANGED <<stVerifying, stPending>>
       ELSE /\ stVerifying' = [stVerifying EXCEPT ![p] = TRUE]
            /\ stPending' = [stPending EXCEPT ![p] =
                                [token |-> stLocal[p], started |-> TRUE]]
            /\ UNCHANGED stToast
    /\ UNCHANGED <<stStored, stLocal, stVerified>>

\* the token stored after a success, taken from the input as it is when
\* the response arrives
TokenToStore_CurrentInput(p) == stLocal[p]

\* the token stored after a success: localGitlabToken / localGithubToken of
\* the render of the handler, the token that was sent
TokenToStore(p) == stPending[p].token

\* verifyGitlabToken / verifyGithubToken from the response on
verifyTokenReturns(p, outcome) ==
    /\ stPending[p] # NoVerification
    /\ stPending' = [stPending EXCEPT ![p] = NoVerification]
    /\ stVerifying' = [stVerifying EXCEPT ![p] = FALSE]
    /\ IF outcome = "ok"
       THEN LET stored == [stStored EXCEPT ![p] = TokenToStore(p)]
                verified == [stVerified EXCEPT ![p] = TRUE]
                effect == InitializeLocalTokens(stored, stLocal, verified)
            IN  /\ stStored' = stored
                /\ stLocal' = IF stored # stStored THEN effect.local ELSE stLocal
                /\ stVerified' = IF stored # stStored THEN effect.verified
                                                      ELSE verified
                /\ stToast' = Toast(p \o " connected",
                                    "Successfully connected as user", "default")
       ELSE /\ stVerified' = [stVerified EXCEPT ![p] = FALSE]
            /\ stToast' = Toast("Verification failed",
                                "Invalid " \o p \o " token. Please check and try again.",
                                "destructive")
            /\ UNCHANGED <<stStored, stLocal>>

verifyGitlabToken == verifyToken("gitlab")
verifyGithubToken == verifyToken("github")

\* the page after its mount and the first run of the effect
InitSettings ==
    /\ stStored \in [Platforms -> {"", "tokA"}]
    /\ stLocal = InitializeLocalTokens(stStored, [p \in Platforms |-> ""],
                                       [p \in Platforms |-> FALSE]).local
    /\ stVerified = InitializeLocalTokens(stStored, [p \in Platforms |-> ""],
                                          [p \in Platforms |-> FALSE]).verified
    /\ stVerifying = [p \in Platforms |-> FALSE]
    /\ stPending = [p \in Platforms |-> NoVerification]
    /\ stToast = NoToast
    /\ IdleParse
    /\ IdleGitLab
    /\ InitCodeDiff
    /\ NoTokens
    /\ IdleTelegram
    /\ IdleLLM
    /\ IdleReview

NextSettings ==
    \/ /\ \E p \in Platforms, text \in TokenTexts : onTokenChange(p, text)
       /\ UNCHANGED <<parseVars, gitlabVars, uiVars, tgVars, llmVars, rvVars>>
    \/ /\ verifyGitlabToken
       /\ UNCHANGED <<parseVars, gitlabVars, uiVars, tgVars, llmVars, rvVars>>
    \/ /\ verifyGithubToken
       /\ UNCHANGED <<parseVars, gitlabVars, uiVars, tgVars, llmVars, rvVars>>
    \/ /\ \E p \in Platforms, outcome \in VerifyOutcomes :
            verifyTokenReturns(p, outcome)
       /\ UNCHANGED <<parseVars, gitlabVars, uiVars, tgVars, llmVars, rvVars>>

SpecSettings == InitSettings /\ [][NextSettings]_vars

\* C27: a stored token changes only when a verification of that platform
\* returns with a success status and a readable body, and then to the
\* token that was sent; a verification that fails and a click with an
\* empty input leave the stored tokens as they are; when a verification
\* returns, the verifying flag of its platform is false.
C27_StoredOnlyAfterVerification ==
    [][\A p \in Platforms :
          /\ stStored'[p] # stStored[p] =>
                /\ stPending[p] # NoVerification
                /\ verifyTokenReturns(p, "ok")
                /\ stStored'[p] = stPending[p].token
          /\ \A outcome \in VerifyOutcomes \ {"ok"} :
                verifyTokenReturns(p, outcome) => stStored' = stStored
          /\ (verifyToken(p) /\ stLocal[p] = "") =>
                /\ stToast'.variant = "destructive"
                /\ UNCHANGED <<stStored, stVerifying, stPending>>
          /\ stPending'[p] = NoVerification => ~stVerifying'[p]]_vars

\* C27 witness: the verification of tokB has succeeded over the stored
\* tokA, and tokB is stored
C27_Witness ==
    /\ stStored["gitlab"] = "tokB"
    /\ stPending["gitlab"] = NoVerification
    /\ ~stVerifying["gitlab"]
    /\ stToast = Toast("gitlab connected", "Successfully connected as user", "default")

\* C28 as stated: when a platform is shown as connected, the text of its
\* token input is its stored token.
C28_ConnectedMeansStored ==
    \A p \in Platforms : stVerified[p] => stLocal[p] = stStored[p]

----------------------------------------------------------------------------
(* MergeReview: the automatic review of the most recent MR on load, as      *)
(* laid down for frontend/src/pages/MergeReview.tsx.  An MR is its URL;    *)
(* openMRs is a list, most recent first.  The effect on openMRs runs with  *)
(* the render that follows setOpenMRs, here in the step of the response.   *)

\* the calls of fetchOpenMRs of one run of the model
MaxFetches == 3

\* the texts of the URL field
MrUrlTexts == {"", "mr1", "mr7"}

\* the lists fetchOpenMRs may return
OpenMRLists == {<<>>, <<"mr1", "mr2">>, <<"mr3", "mr1", "mr2">>}

\* handleReview(): it has no parameter and reviews the mrUrl of the render
\* it was called from
handleReview(automatic) ==
    rvLastReview' = [url |-> rvMrUrl, automatic |-> automatic, fetch |-> rvFetches']

\* the effect on openMRs, without the flag
autoReview_NoFlag(list) ==
    IF Len(list) > 0
    THEN /\ rvMrUrl' = list[1]
         /\ rvHasAutoReviewed' = TRUE
         /\ rvAutoReviews' = rvAutoReviews + 1
         /\ handleReview(TRUE)
    ELSE UNCHANGED <<rvMrUrl, rvHasAutoReviewed, rvAutoReviews, rvLastReview>>

\* the effect on openMRs: if MRs exist and hasAutoReviewed.current is
\* false, set mrUrl to the first MR's URL, set the flag, call handleReview()
autoReview(list) ==
    IF Len(list) > 0 /\ ~rvHasAutoReviewed
    THEN /\ rvMrUrl' = list[1]
         /\ rvHasAutoReviewed' = TRUE
         /\ rvAutoReviews' = rvAutoReviews + 1
         /\ handleReview(TRUE)
    ELSE UNCHANGED <<rvMrUrl, rvHasAutoReviewed, rvAutoReviews, rvLastReview>>

\* fetchOpenMRs is called: on load once the tokens are saved, or by a
\* manual refresh
fetchOpenMRs ==
    /\ ~rvFetching
    /\ rvFetches < MaxFetches
    /\ rvFetching' = TRUE
    /\ UNCHANGED <<rvOpenMRs, rvMrUrl, rvHasAutoReviewed, rvFetches,
                   rvAutoReviews, rvLastReview>>

\* fetchOpenMRs succeeds and sets openMRs; the effect on openMRs runs
fetchOpenMRsReturns(list) ==
    /\ rvFetching
    /\ rvFetching' = FALSE
    /\ rvFetches' = rvFetches + 1
    /\ rvOpenMRs' = list
    /\ autoReview(list)

\* fetchOpenMRs fails: openMRs is not set
fetchOpenMRsFails ==
    /\ rvFetching
    /\ rvFetching' = FALSE
    /\ UNCHANGED <<rvOpenMRs, rvMrUrl, rvHasAutoReviewed, rvFetches,
                   rvAutoReviews, rvLastReview>>

\* the user pastes a URL, or selects the MR at index of the list
onMrUrlChange(text) ==
    /\ rvMrUrl' = text
    /\ UNCHANGED <<rvOpenMRs, rvHasAutoReviewed, rvFetching, rvFetches,
                   rvAutoReviews, rvLastReview>>

selectMR(index) ==
    /\ index \in 1..Len(rvOpenMRs)
    /\ onMrUrlChange(rvOpenMRs[index])

\* the user clicks review
reviewClicked ==
    /\ UNCHANGED <<rvOpenMRs, rvMrUrl, rvHasAutoReviewed, rvFetching, rvFetches,
                   rvAutoReviews>>
    /\ handleReview(FALSE)

InitMergeReview ==
    /\ IdleReview
    /\ IdleParse
    /\ IdleGitLab
    /\ InitCodeDiff
    /\ NoTokens
    /\ IdleTelegram
    /\ IdleLLM
    /\ IdleSettings

NextMergeReview ==
    \/ /\ fetchOpenMRs
       /\ UNCHANGED <<parseVars, gitlabVars, uiVars, tgVars, llmVars, stVars>>
    \/ /\ \E list \in OpenMRLists : fetchOpenMRsReturns(list)
       /\ UNCHANGED <<parseVars, gitlabVars, uiVars, tgVars, llmVars, stVars>>
    \/ /\ fetchOpenMRsFails
       /\ UNCHANGED <<parseVars, gitlabVars, uiVars, tgVars, llmVars, stVars>>
    \/ /\ \E text \in MrUrlTexts : onMrUrlChange(text)
       /\ UNCHANGED <<parseVars, gitlabVars, uiVars, tgVars, llmVars, stVars>>
    \/ /\ \E index \in 1..3 : selectMR(index)
       /\ UNCHANGED <<parseVars, gitlabVars, uiVars, tgVars, llmVars, stVars>>
    \/ /\ reviewClicked
       /\ UNCHANGED <<parseVars, gitlabVars, uiVars, tgVars, llmVars, stVars>>

SpecMergeReview == InitMergeReview /\ [][NextMergeReview]_vars

\* C21: the effect calls handleReview at most once in the life of the
\* page: the call sets hasAutoReviewed, the flag is never reset, and once
\* it is set no update of openMRs makes the effect call handleReview.
C21_AutoReviewAtMostOnce ==
    [][/\ rvAutoReviews' <= 1
       /\ rvAutoReviews' > rvAutoReviews => ~rvHasAutoReviewed /\ rvHasAutoReviewed'
       /\ rvHasAutoReviewed =>
             /\ rvHasAutoReviewed'
             /\ rvAutoReviews' = rvAutoReviews
             /\ rvLastReview' # rvLastReview => ~rvLastReview'.automatic]_vars

\* C21 witness: the effect called handleReview with the first list, and a
\* second list of MRs has arrived without another automatic call
C21_Witness ==
    /\ rvHasAutoReviewed
    /\ rvAutoReviews = 1
    /\ rvLastReview.automatic
    /\ rvLastReview.fetch = 1
    /\ rvFetches = 2
    /\ rvOpenMRs = <<"mr3", "mr1", "mr2">>

====
